---- MODULE Spec2Model ----
(***************************************************************************)
(* ClawShield: the runtime guard (Node: packages/cli/src/sandbox/          *)
(* node-guard.ts, Python: the sitecustomize text of python-guard), the     *)
(* launcher that configures it (commands/run.ts) and the audit trail they  *)
(* share with the backend's AuditLoggerService.                            *)
(*                                                                         *)
(* Text values (paths, host names, list values of the environment) are     *)
(* sequences of one-character strings, so that prefix, suffix, split and   *)
(* lower-casing are computed character by character as the code does.      *)
(* Paths follow the POSIX branch of the code (process.platform /= win32,   *)
(* os.name /= nt).                                                         *)
(***************************************************************************)
EXTENDS Integers, Sequences, FiniteSets, TLC

VARIABLES
    fnIn,       \* inputs handed to a matching function (isPathAllowed, isDomainAllowed)
    fnOut,      \* [done, val]: the function was applied to fnIn, and what it returned
    policy,     \* config.defaultPolicy as stored by the policy manager
    cfg,        \* the configuration the running guard captured when it was loaded
    environ,    \* the real environment of the guarded process (the Proxy's target)
    fs,         \* the audit directory and file: existence, writability, lines
    spawned,    \* number of child processes the guarded process really started
    last,       \* the skill's latest operation and what came of it
    nops,       \* operations performed so far
    procs       \* the processes sharing the audit trail: each one's next system call

sideVars == <<fnIn, fnOut, procs>>

guardVars == <<policy, cfg, environ, fs, spawned, last, nops>>

vars == <<fnIn, fnOut, policy, cfg, environ, fs, spawned, last, nops, procs>>

(***************************************************************************)
(* Text helpers                                                            *)
(***************************************************************************)

\* every text over alphabet A of length at most n
StrUpTo(A, n) == UNION {[1..k -> A] : k \in 0..n}

\* String.prototype.toLowerCase / str.lower on the letters the model uses
LowerCh(c) == CASE c = "A" -> "a" [] c = "E" -> "e" [] OTHER -> c

ToLower(s) == [i \in 1..Len(s) |-> LowerCh(s[i])]

\* String.prototype.startsWith / str.startswith
StartsWith(s, p) == Len(p) <= Len(s) /\ SubSeq(s, 1, Len(p)) = p

\* String.prototype.endsWith / str.endswith
EndsWith(s, p) == Len(p) <= Len(s) /\ SubSeq(s, Len(s) - Len(p) + 1, Len(s)) = p

RECURSIVE SplitFrom(_, _, _, _)
SplitFrom(s, c, i, cur) ==
    IF i > Len(s) THEN <<cur>>
    ELSE IF s[i] = c THEN <<cur>> \o SplitFrom(s, c, i + 1, <<>>)
    ELSE SplitFrom(s, c, i + 1, Append(cur, s[i]))

\* String.prototype.split(c) / str.split(c) on a one-character separator
Split(s, c) == SplitFrom(s, c, 1, <<>>)

RECURSIVE JoinWith(_, _)
\* Array.prototype.join(c)
JoinWith(parts, c) ==
    IF parts = <<>> THEN <<>>
    ELSE IF Len(parts) = 1 THEN parts[1]
    ELSE parts[1] \o <<c>> \o JoinWith(Tail(parts), c)

(***************************************************************************)
(* Path and domain matching (node-guard.ts 42-115, python guard 74-103)    *)
(***************************************************************************)

\* process.cwd() / os.getcwd() of the guarded process: run.ts starts the skill
\* with cwd = the skill folder; here the folder "/w"
Cwd == <<"/", "w">>

\* CLAWSHIELD_AUDIT_PATH as run.ts sets it: <home>/.clawshield/audit.jsonl;
\* here the file "/h/t" in the directory "/h"
AuditPath == <<"/", "h", "/", "t">>

\* path.dirname(auditPath) / os.path.dirname(AUDIT_PATH)
AuditDir == <<"/", "h">>

\* path.sep / os.sep
Sep == "/"

RECURSIVE ResolveSegs(_, _, _)
\* the segment walk of path.resolve / os.path.normpath: empty and "." segments
\* are dropped, ".." removes the segment before it and is dropped at the root
ResolveSegs(segs, i, acc) ==
    IF i > Len(segs) THEN acc
    ELSE IF segs[i] = <<>> \/ segs[i] = <<".">> THEN ResolveSegs(segs, i + 1, acc)
    ELSE IF segs[i] = <<".", ".">>
         THEN ResolveSegs(segs, i + 1,
                          IF acc = <<>> THEN acc ELSE SubSeq(acc, 1, Len(acc) - 1))
    ELSE ResolveSegs(segs, i + 1, Append(acc, segs[i]))

RECURSIVE SlashJoin(_)
SlashJoin(segs) ==
    IF segs = <<>> THEN <<>> ELSE <<Sep>> \o segs[1] \o SlashJoin(Tail(segs))

\* a relative value is taken under the working directory
Absolute(value) ==
    IF value /= <<>> /\ value[1] = Sep THEN value ELSE Cwd \o <<Sep>> \o value

\* node-guard.ts normalizePath: path.resolve(value) on a POSIX platform
normalizePath(value) ==
    LET body == SlashJoin(ResolveSegs(Split(Absolute(value), Sep), 1, <<>>))
    IN  IF body = <<>> THEN <<Sep>> ELSE body

\* python guard _norm_path: os.path.abspath(value); POSIX normpath keeps
\* exactly two leading slashes
_norm_path(value) ==
    LET abs  == Absolute(value)
        body == SlashJoin(ResolveSegs(Split(abs, Sep), 1, <<>>))
        two  == StartsWith(abs, <<Sep, Sep>>) /\ ~StartsWith(abs, <<Sep, Sep, Sep>>)
    IN  IF two THEN <<Sep>> \o (IF body = <<>> THEN <<Sep>> ELSE body)
        ELSE IF body = <<>> THEN <<Sep>> ELSE body

\* the canonical form the guard of language lang compares
NormFor(lang, value) ==
    IF lang = "node" THEN normalizePath(value) ELSE _norm_path(value)

\* a prefix test that forgets the separator after the directory
UnderDirNoSep(resolved, allowed) ==
    resolved = allowed \/ StartsWith(resolved, allowed)

\* the prefix test of isPathAllowed / _is_path_allowed for one allow-listed
\* directory, both sides already canonical
UnderDir(resolved, allowed) ==
    resolved = allowed \/ StartsWith(resolved, allowed \o <<Sep>>)

\* node-guard.ts isPathAllowed and python guard _is_path_allowed; dirs is
\* config.allowedDirs / ALLOWED_DIRS
isPathAllowed(lang, targetPath, dirs) ==
    IF targetPath = <<>> THEN FALSE
    ELSE LET resolved == NormFor(lang, targetPath) IN
         IF resolved = NormFor(lang, AuditPath) THEN TRUE
         ELSE IF dirs = <<>> THEN FALSE
         ELSE \E i \in 1..Len(dirs) : UnderDir(resolved, NormFor(lang, dirs[i]))

\* host.toLowerCase().split(':')[0] / host.split(":")[0].lower()
HostName(host) == Split(ToLower(host), ":")[1]

\* a suffix test that forgets the dot before the domain
DomainMatchesNoDot(hostname, domain) ==
    LET d == ToLower(domain) IN hostname = d \/ EndsWith(hostname, d)

\* the suffix test of isDomainAllowed / _is_domain_allowed for one domain
DomainMatches(hostname, domain) ==
    LET d == ToLower(domain) IN hostname = d \/ EndsWith(hostname, <<".">> \o d)

\* node-guard.ts isDomainAllowed and python guard _is_domain_allowed
isDomainAllowed(host, domains) ==
    IF host = <<>> THEN FALSE
    ELSE IF domains = <<>> THEN FALSE
    ELSE \E i \in 1..Len(domains) : DomainMatches(HostName(host), domains[i])

(***************************************************************************)
(* Launch: run.ts turns the stored policy into CLAWSHIELD_* values, the    *)
(* guard parses them once when it is loaded                                *)
(***************************************************************************)

\* String.prototype.trim / str.strip on the blank the model uses
RECURSIVE Trim(_)
Trim(s) ==
    IF s = <<>> THEN s
    ELSE IF s[1] = " " THEN Trim(Tail(s))
    ELSE IF s[Len(s)] = " " THEN Trim(SubSeq(s, 1, Len(s) - 1))
    ELSE s

RECURSIVE ListFrom(_, _, _)
ListFrom(s, i, cur) ==
    LET done == IF Trim(cur) = <<>> THEN <<>> ELSE <<Trim(cur)>> IN
    IF i > Len(s) THEN done
    ELSE IF s[i] \in {",", ";"} THEN done \o ListFrom(s, i + 1, <<>>)
    ELSE ListFrom(s, i + 1, Append(cur, s[i]))

\* node-guard.ts parseList and python guard _parse_list: split on ',' and
\* ';', trim, drop the empty items
parseList(value) == ListFrom(value, 1, <<>>)

\* node-guard.ts envBool / python guard _env_bool for a value that is set
\* (run.ts always sets the four gates, to '1' or '0')
envBool(lang, value) ==
    \/ value = <<"1">>
    \/ ToLower(value) = <<"t", "r", "u", "e">>
    \/ ToLower(value) = <<"y", "e", "s">>
    \/ (lang = "python" /\ ToLower(value) = <<"o", "n">>)

Flag(b) == IF b THEN <<"1">> ELSE <<"0">>

\* run.ts allowedWriteDirs: the paths of the allowedDirs with mode readwrite
RECURSIVE WriteDirs(_)
WriteDirs(dirs) ==
    IF dirs = <<>> THEN <<>>
    ELSE (IF dirs[1].mode = "readwrite" THEN <<dirs[1].path>> ELSE <<>>)
         \o WriteDirs(Tail(dirs))

\* run.ts env: the CLAWSHIELD_* values of the child process
LaunchEnv(pol, level, extraEnv) ==
    [ BLOCK_SHELL     |-> Flag(pol.blockShell),
      BLOCK_NETWORK   |-> Flag(pol.blockNetwork),
      BLOCK_SECRETS   |-> Flag(pol.blockSecrets),
      BLOCK_FS_WRITE  |-> Flag(pol.blockFsWrite),
      ALLOWED_DIRS    |-> JoinWith(WriteDirs(pol.allowedDirs), ";"),
      ALLOWED_DOMAINS |-> JoinWith(pol.allowedDomains, ","),
      ALLOWED_ENV     |-> extraEnv,
      AUDIT_LEVEL     |-> level ]

\* node-guard.ts config, auditLevel / python guard BLOCK_*, ALLOWED_*,
\* AUDIT_LEVEL: read once from the environment when the guard is loaded.
\* live: the guard's own fs.* / os.* / open calls go through the functions
\* it patched (always in Python, where the names are looked up at call time;
\* in Node it depends on how the build binds `import * as fs`).
GuardConfig(lang, live, env) ==
    [ lang           |-> lang,
      live           |-> live,
      blockShell     |-> envBool(lang, env.BLOCK_SHELL),
      blockNetwork   |-> envBool(lang, env.BLOCK_NETWORK),
      blockFsWrite   |-> envBool(lang, env.BLOCK_FS_WRITE),
      blockSecrets   |-> envBool(lang, env.BLOCK_SECRETS),
      allowedDirs    |-> parseList(env.ALLOWED_DIRS),
      allowedDomains |-> parseList(env.ALLOWED_DOMAINS),
      allowedEnv     |-> parseList(env.ALLOWED_ENV),
      auditLevel     |-> env.AUDIT_LEVEL ]

(***************************************************************************)
(* Audit writing inside the guard (node-guard.ts 49-91, python guard       *)
(* 41-72).  fs = [dir, file, ok, lines, app, deep]: the audit directory    *)
(* exists, the audit file exists, creating/appending can succeed (ok =     *)
(* FALSE: disk full, permission denied), the file's lines, the lines       *)
(* appended during the operation in progress, and whether the guard's      *)
(* calls nested up to the limit of the runtime's stack during it.          *)
(***************************************************************************)

\* nesting of guard calls the runtime's stack allows before it raises
\* RangeError / RecursionError
MaxStack == 3

Ret(f, e) == [fs |-> f, err |-> e]

\* Below, CHOOSE r \in {F(v) : v \in {call}} : TRUE is F of the call's result,
\* the call made once: the statement after a call.

\* an AuditEntry written by the guard: action "runtime", result, details
Entry(result, kind, fn, what) ==
    [action |-> "runtime", result |-> result, kind |-> kind, fn |-> fn, what |-> what]

\* the unpatched fs.mkdirSync(dir, {recursive: true}) / os.makedirs(dir, exist_ok=True)
RealMkdir(f) ==
    IF f.dir THEN Ret(f, FALSE)
    ELSE IF f.ok THEN Ret([f EXCEPT !.dir = TRUE], FALSE)
    ELSE Ret(f, TRUE)

\* the unpatched fs.writeFileSync(auditPath, '') / open(AUDIT_PATH, "w")
RealCreate(f) ==
    IF f.dir /\ f.ok THEN Ret([f EXCEPT !.file = TRUE, !.lines = <<>>], FALSE)
    ELSE Ret(f, TRUE)

\* the unpatched fs.appendFileSync(auditPath, line) / open(AUDIT_PATH, "a").write
RealAppend(f, e) ==
    IF f.dir /\ f.ok
    THEN Ret([f EXCEPT !.file = TRUE, !.lines = Append(@, e), !.app = Append(@, e)], FALSE)
    ELSE Ret(f, TRUE)

RealOp(f, what, e) ==
    CASE what = "mkdir"  -> RealMkdir(f)
      [] what = "create" -> RealCreate(f)
      [] what = "append" -> RealAppend(f, e)

\* the names under which the guard calls the three file operations
OwnFn(lang, what) ==
    IF lang = "node"
    THEN CASE what = "mkdir" -> "mkdirSync" [] what = "create" -> "writeFileSync"
           [] what = "append" -> "appendFileSync"
    ELSE CASE what = "mkdir" -> "makedirs" [] what = "create" -> "open"
           [] what = "append" -> "open"

RECURSIVE WriteAudit(_, _, _, _)

\* node-guard.ts logBlocked / python guard _log_blocked
logBlocked(c, f, kind, fn, what, d) ==
    WriteAudit(c, f, Entry("blocked", kind, fn, what), d + 1)

\* node-guard.ts logAllowed / python guard _log_allowed
logAllowed(c, f, kind, fn, what, d) ==
    IF c.auditLevel = "all"
    THEN WriteAudit(c, f, Entry("success", kind, fn, what), d + 1)
    ELSE Ret(f, FALSE)

\* a write guard that logs the refusal and then lets the call go on
GuardPathWriteNoThrow(c, f, fn, target, d) ==
    IF c.blockFsWrite /\ ~isPathAllowed(c.lang, target, c.allowedDirs)
    THEN Ret(logBlocked(c, f, "fs_write", fn, target, d).fs, FALSE)
    ELSE logAllowed(c, f, "fs_write", fn, target, d)

\* the decision part of the patched write functions: node-guard.ts wrapWrite
\* (lines 208-215) and python guard _guard_path_write.  err = TRUE: it throws.
GuardPathWrite(c, f, fn, target, d) ==
    IF c.blockFsWrite /\ ~isPathAllowed(c.lang, target, c.allowedDirs)
    THEN Ret(logBlocked(c, f, "fs_write", fn, target, d).fs, TRUE)
    ELSE logAllowed(c, f, "fs_write", fn, target, d)

\* a file operation the guard itself performs on the audit directory or file:
\* through the patched function when the guard's calls are bound to it
OwnCall(c, f, what, target, e, d) ==
    IF c.live
    THEN CHOOSE r \in { IF g.err THEN g ELSE RealOp(g.fs, what, e) :
                          g \in {GuardPathWrite(c, f, OwnFn(c.lang, what), target, d)} } :
                TRUE
    ELSE RealOp(f, what, e)

\* audit code without its catch blocks: what was thrown goes on to the caller
NotCaught(r) == r

\* the catch blocks of ensureAuditFile / writeAudit (node-guard.ts 58-60,
\* 76-78; python guard 47-48, 64-65): whatever was thrown stops here
Caught(r) == Ret(r.fs, FALSE)

\* node-guard.ts ensureAuditFile / python guard _ensure_audit_file
ensureAuditFile(c, f, e, d) ==
    CHOOSE r \in { IF mk.err THEN Caught(mk)
                    ELSE IF ~mk.fs.file
                         THEN Caught(OwnCall(c, mk.fs, "create", AuditPath, e, d))
                    ELSE mk :
                    mk \in { IF c.lang = "python" \/ ~f.dir
                             THEN OwnCall(c, f, "mkdir", AuditDir, e, d)
                             ELSE Ret(f, FALSE) } } :
        TRUE

\* node-guard.ts writeAudit / python guard _write_audit at nesting depth d
WriteAudit(c, f, e, d) ==
    IF d > MaxStack THEN Ret([f EXCEPT !.deep = TRUE], TRUE)
    ELSE CHOOSE r \in { IF en.err THEN Caught(en)
                         ELSE Caught(OwnCall(c, en.fs, "append", AuditPath, e, d)) :
                         en \in {ensureAuditFile(c, f, e, d)} } :
                TRUE

(***************************************************************************)
(* The guarded process: what the skill can do and what the guard does      *)
(***************************************************************************)

\* operations (skill calls, policy changes, launches) in one behaviour
MaxOps == 2

\* names in the real environment; "EXTRA" is the name the operator listed in
\* CLAWSHIELD_ALLOWED_ENV (one symbol stands for one name)
Keys == {"PATH", "SECRET", "EXTRA", "CLAWSHIELD_BLOCK_SHELL"}

ExtraEnv == <<"EXTRA">>

\* node-guard.ts defaultAllowed (145-147) / python guard _default_allowed (107-110)
FixedAllowedEnv(lang) ==
    IF lang = "node"
    THEN {"PATH", "HOME", "USER", "SHELL", "TMPDIR", "TEMP", "TMP", "LANG",
          "NODE_ENV", "NODE_OPTIONS"}
    ELSE {"PATH", "HOME", "USER", "SHELL", "TMPDIR", "TEMP", "TMP", "LANG",
          "LC_ALL", "PYTHONPATH", "VIRTUAL_ENV", "NODE_ENV", "PWD"}

\* defaultAllowed after the loop over config.allowedEnv / _default_allowed.update
AllowedEnv(c) ==
    FixedAllowedEnv(c.lang) \cup {c.allowedEnv[i][1] : i \in 1..Len(c.allowedEnv)}

\* node-guard.ts handleNetwork line 274 / python guard _handle_network line 207
NetAllowed(c, host) ==
    IF c.lang = "node"
    THEN IF c.allowedDomains /= <<>> THEN isDomainAllowed(host, c.allowedDomains)
         ELSE ~c.blockNetwork
    ELSE ~c.blockNetwork \/ isDomainAllowed(host, c.allowedDomains)

\* a guard that reads the stored policy again at every decision
StoredConfig == GuardConfig(cfg.lang, cfg.live, LaunchEnv(policy, cfg.auditLevel, ExtraEnv))

\* the configuration the guard consults when it decides an operation: the
\* module constants set when it was loaded (node-guard.ts 26-40, python guard
\* 27-39)
ActiveConfig == cfg

NoOp == [op |-> "none", fn |-> "-", what |-> <<>>, form |-> "-", denied |-> FALSE,
         raised |-> FALSE, performed |-> FALSE, value |-> "-", before |-> "-"]

Outcome(op, fn, what, form, denied, raised, performed, value, before) ==
    [op |-> op, fn |-> fn, what |-> what, form |-> form, denied |-> denied,
     raised |-> raised, performed |-> performed, value |-> value, before |-> before]

Fresh(f) == [f EXCEPT !.app = <<>>, !.deep = FALSE]

\* the process-spawn functions the guard replaces (node-guard.ts 180, python
\* guard 153-158); the skill calls one of them
ShellFns(lang) ==
    IF lang = "node"
    THEN {"exec", "execSync", "spawn", "spawnSync", "execFile", "execFileSync", "fork"}
    ELSE {"system", "popen", "Popen", "run", "call", "check_output"}

\* the functions the model's skill calls, one per way of spawning
CalledShellFns(lang) == IF lang = "node" THEN {"exec"} ELSE {"run"}

\* child_process[fn](...) / subprocess.run(...): node-guard.ts 184-189, python
\* guard 148-150 when the gate is on; the library function itself when it is off
ShellCall(fn) ==
    /\ nops < MaxOps
    /\ fn \in CalledShellFns(cfg.lang) /\ fn \in ShellFns(cfg.lang)
    /\ LET c == ActiveConfig IN
       IF c.blockShell
       THEN LET r == logBlocked(c, Fresh(fs), "shell", fn, <<>>, 0) IN
            /\ fs' = r.fs
            /\ spawned' = spawned
            /\ last' = Outcome("shell", fn, <<>>, "-", TRUE, TRUE, FALSE, "-", "-")
       ELSE /\ fs' = Fresh(fs)
            /\ spawned' = spawned + 1
            /\ last' = Outcome("shell", fn, <<>>, "-", FALSE, FALSE, TRUE, "-", "-")
    /\ nops' = nops + 1
    /\ UNCHANGED <<policy, cfg, environ, sideVars>>

\* child_process[fn].__clawshield_original(...): the property node-guard.ts
\* line 190 attaches to every replaced function holds the library function
ShellOriginal(fn) ==
    /\ nops < MaxOps
    /\ cfg.lang = "node" /\ cfg.blockShell
    /\ fn \in CalledShellFns(cfg.lang)
    /\ fs' = Fresh(fs)
    /\ spawned' = spawned + 1
    /\ last' = Outcome("shell_original", fn, <<>>, "-", FALSE, FALSE, TRUE, "-", "-")
    /\ nops' = nops + 1
    /\ UNCHANGED <<policy, cfg, environ, sideVars>>

\* what a skill's own write leaves in a file: not an audit record
Junk == [action |-> "junk", result |-> "-", kind |-> "-", fn |-> "-", what |-> <<>>]

\* the paths the model's skill writes to: the audit file and a file inside
\* the directory "/f"
FsTargets == {AuditPath, <<"/", "f", "/", "b">>}

\* the library function behind the skill's write, reached when the wrapper
\* calls original(...): only a write to the audit file changes modelled state
SkillWriteEffect(c, f, target) ==
    IF NormFor(c.lang, target) = NormFor(c.lang, AuditPath) /\ f.dir /\ f.ok
    THEN [f EXCEPT !.file = TRUE, !.lines = <<Junk>>]
    ELSE f

\* fs.writeFileSync(target, data) through node-guard.ts wrapWrite (207-217);
\* open(target, "w") through python guard _open_guard (168-171)
FsWrite(target) ==
    /\ nops < MaxOps
    /\ target \in FsTargets
    /\ LET c  == ActiveConfig
           fn == IF c.lang = "node" THEN "writeFileSync" ELSE "open"
           g  == GuardPathWrite(c, Fresh(fs), fn, target, 0)
           no == c.blockFsWrite /\ ~isPathAllowed(c.lang, target, c.allowedDirs)
       IN  /\ fs' = IF g.err THEN g.fs ELSE SkillWriteEffect(c, g.fs, target)
           /\ last' = Outcome("fs", fn, target, "-", no, g.err, ~g.err, "-", "-")
    /\ nops' = nops + 1
    /\ UNCHANGED <<policy, cfg, environ, spawned, sideVars>>

\* the hosts the model's skill connects to
Hosts == {<<"a", ".", "e">>, <<"a", "e">>}

\* http.request(host) through node-guard.ts wrapRequest (292-296) and
\* handleNetwork; socket.create_connection through python guard 225-228
NetConnect(host) ==
    /\ nops < MaxOps
    /\ host \in Hosts
    /\ LET c  == ActiveConfig
           fn == IF c.lang = "node" THEN "request" ELSE "socket.create_connection"
           ok == NetAllowed(c, host)
           r  == IF ok THEN logAllowed(c, Fresh(fs), "network", fn, host, 0)
                 ELSE Ret(logBlocked(c, Fresh(fs), "network", fn, host, 0).fs, TRUE)
       IN  /\ fs' = r.fs
           /\ last' = Outcome("net", fn, host, "-", ~ok, r.err, ~r.err, "-", "-")
    /\ nops' = nops + 1
    /\ UNCHANGED <<policy, cfg, environ, spawned, sideVars>>

\* the ways the skill's code reads and writes the environment
GetForms(lang) == IF lang = "node" THEN {"get"} ELSE {"getitem", "get"}

SetForms(lang) == IF lang = "node" THEN {"sloppy", "strict"} ELSE {"setitem", "putenv"}

\* the reads the model's skill makes: a name of the fixed list, the configured
\* extra name, and a name on neither list
GetCalls == {<<"PATH", "get">>, <<"EXTRA", "get">>, <<"SECRET", "get">>,
             <<"SECRET", "getitem">>}

\* the names the model's skill writes and deletes: on no allow-list
SetKeys == {"CLAWSHIELD_BLOCK_SHELL"}

RawKeys == {"SECRET"}

\* the key is one the installed proxy refuses
EnvBlocked(c, key) == c.blockSecrets /\ key \notin AllowedEnv(c)

\* process.env[key] through the Proxy's get trap (node-guard.ts 154-162);
\* os.environ[key] (__getitem__, python guard 116-120) and os.environ.get /
\* os.getenv (python guard 135-139, 142).  Without blockSecrets there is no
\* proxy and the read is the runtime's own.
EnvGet(key, form) ==
    /\ nops < MaxOps
    /\ <<key, form>> \in GetCalls /\ form \in GetForms(cfg.lang)
    /\ LET c       == ActiveConfig
           blocked == EnvBlocked(c, key)
           r       == IF blocked THEN logBlocked(c, Fresh(fs), "env", "-", <<key>>, 0)
                      ELSE Ret(Fresh(fs), FALSE)
           cur     == environ[key]
           raised  == IF blocked THEN (form = "getitem" \/ r.err)
                      ELSE form = "getitem" /\ cur = "unset"
           value   == IF raised THEN "-"
                      ELSE IF blocked THEN (IF form = "get" /\ c.lang = "python"
                                            THEN "default" ELSE "undefined")
                      ELSE IF form = "get" /\ c.lang = "python" /\ cur = "unset"
                           THEN "default"
                      ELSE cur
       IN  /\ fs' = r.fs
           /\ last' = Outcome("env_get", "-", <<key>>, form, blocked, raised,
                              ~blocked /\ ~raised, value, cur)
    /\ nops' = nops + 1
    /\ UNCHANGED <<policy, cfg, environ, spawned, sideVars>>

\* process.env[key] = v through the Proxy's set trap (node-guard.ts 163-169):
\* a trap returning false makes strict-mode code throw TypeError and
\* sloppy-mode code continue; os.environ[key] = v (__setitem__, python guard
\* 121-125) and os.putenv (python guard 143, replaced for every key)
EnvSet(key, form) ==
    /\ nops < MaxOps
    /\ key \in SetKeys /\ form \in SetForms(cfg.lang)
    /\ LET c       == ActiveConfig
           blocked == IF form = "putenv" THEN c.blockSecrets ELSE EnvBlocked(c, key)
           r       == IF blocked THEN logBlocked(c, Fresh(fs), "env_set", "-", <<key>>, 0)
                      ELSE Ret(Fresh(fs), FALSE)
           raised  == blocked /\ (form \in {"strict", "setitem"} \/ r.err)
       IN  /\ fs' = r.fs
           /\ environ' = IF blocked THEN environ ELSE [environ EXCEPT ![key] = "new"]
           /\ last' = Outcome("env_set", "-", <<key>>, form, blocked, raised,
                              ~blocked, "-", environ[key])
    /\ nops' = nops + 1
    /\ UNCHANGED <<policy, cfg, spawned, sideVars>>

\* delete process.env[key]: the Proxy of node-guard.ts 153-170 has no
\* deleteProperty trap, so the deletion reaches the real environment;
\* del os.environ[key] (__delitem__, python guard 126-130)
EnvDel(key) ==
    /\ nops < MaxOps
    /\ key \in RawKeys
    /\ LET c       == ActiveConfig
           blocked == c.lang = "python" /\ EnvBlocked(c, key)
           r       == IF blocked
                      THEN logBlocked(c, Fresh(fs), "env_delete", "-", <<key>>, 0)
                      ELSE Ret(Fresh(fs), FALSE)
           raised  == blocked \/ (c.lang = "python" /\ environ[key] = "unset")
       IN  /\ fs' = r.fs
           /\ environ' = IF blocked THEN environ ELSE [environ EXCEPT ![key] = "unset"]
           /\ last' = Outcome("env_del", "-", <<key>>, "-", blocked, raised,
                              ~blocked, "-", environ[key])
    /\ nops' = nops + 1
    /\ UNCHANGED <<policy, cfg, spawned, sideVars>>

\* a read that no trap sees: Object.getOwnPropertyDescriptor(process.env, key)
\* (the Proxy has only get and set); os.environ._backing[key] (the attribute
\* set at python guard 115)
EnvRaw(key) ==
    /\ nops < MaxOps
    /\ key \in RawKeys
    /\ ActiveConfig.blockSecrets
    /\ fs' = Fresh(fs)
    /\ last' = Outcome("env_raw", "-", <<key>>, "-", FALSE, FALSE, TRUE,
                       environ[key], environ[key])
    /\ nops' = nops + 1
    /\ UNCHANGED <<policy, cfg, environ, spawned, sideVars>>

\* the stored policies of the model.  No operation reads both blockShell and
\* blockSecrets, and none reads both allow-lists, so these are set together;
\* the compiled-in default (shell and secrets blocked, lists empty) is one of
\* them.
Policies ==
    { [blockShell |-> a, blockSecrets |-> a, blockNetwork |-> c, blockFsWrite |-> d,
       allowedDirs |-> IF l THEN <<[path |-> <<"/", "f">>, mode |-> "readwrite"]>>
                       ELSE <<>>,
       allowedDomains |-> IF l THEN <<<<"e">>>> ELSE <<>>] :
        a \in BOOLEAN, c \in BOOLEAN, d \in BOOLEAN, l \in BOOLEAN }

\* the policy with every gate of pol the other way
Flipped(pol) ==
    [pol EXCEPT !.blockShell = ~@, !.blockSecrets = ~@, !.blockNetwork = ~@,
                !.blockFsWrite = ~@]

\* an audit record written by the backend's AuditLoggerService
AdminEntry(action) ==
    [action |-> action, result |-> "success", kind |-> "-", fn |-> "-", what |-> <<>>]

\* AuditLoggerService.log (part_005 39-63): append, errors swallowed
BackendLog(f, e) == Caught(RealAppend(f, e)).fs

\* POST /policies (part_003 23-55): PolicyManagerService.updateDefaultPolicy
\* replaces the stored policy, then the change is logged
PolicyChange(pol) ==
    /\ nops < MaxOps
    /\ pol \in Policies
    /\ policy' = pol
    /\ fs' = BackendLog(Fresh(fs), AdminEntry("policy_change"))
    /\ last' = [NoOp EXCEPT !.op = "policy"]
    /\ nops' = nops + 1
    /\ UNCHANGED <<cfg, environ, spawned, sideVars>>

\* the real environment a guarded process starts with
StartEnviron == [k \in Keys |-> "real"]

\* the guard as loaded in a process started by run.ts from policy pol: the
\* configuration is parsed, the patches installed, the start-up record logged
\* (node-guard.ts 354-362, python guard 231-239)
Loaded(lang, live, level, pol) == GuardConfig(lang, live, LaunchEnv(pol, level, ExtraEnv))

StartLog(c, f) == logAllowed(c, Fresh(f), "guard_start", "-", <<>>, 0).fs

\* `clawshield run` again: the next guarded invocation of the skill
Relaunch ==
    /\ nops < MaxOps
    /\ LET c == Loaded(cfg.lang, cfg.live, cfg.auditLevel, policy) IN
       /\ cfg' = c
       /\ fs' = StartLog(c, fs)
    /\ environ' = StartEnviron
    /\ spawned' = 0
    /\ last' = [NoOp EXCEPT !.op = "launch"]
    /\ nops' = nops + 1
    /\ UNCHANGED <<policy, sideVars>>

\* the audit directory and file before the first launch: absent, or both
\* present and empty; where they are present the disk may refuse writes
StartFs ==
    { [dir |-> d, file |-> d, ok |-> k, lines |-> <<>>, app |-> <<>>, deep |-> FALSE] :
        d \in BOOLEAN, k \in BOOLEAN } \ {[dir |-> FALSE, file |-> FALSE, ok |-> FALSE,
                                            lines |-> <<>>, app |-> <<>>, deep |-> FALSE]}

NotApplied == [done |-> FALSE, val |-> FALSE]

\* the writers of one audit trail: the backend's AuditLoggerService, a process
\* under the Node guard and a process under the Python guard
Procs == {"backend", "node", "python"}

\* no process is writing
NoProcs == [p \in Procs |-> [pc |-> "off", left |-> 0]]

FnIdle == fnIn = "-" /\ fnOut = NotApplied /\ procs = NoProcs

Init ==
    /\ FnIdle
    /\ policy \in Policies
    /\ \E lang \in {"node", "python"}, live \in BOOLEAN, level \in {"blocked", "all"} :
          /\ lang = "python" => live
          /\ cfg = Loaded(lang, live, level, policy)
    /\ \E f \in StartFs : fs = StartLog(cfg, f)
    /\ environ = StartEnviron
    /\ spawned = 0
    /\ last = [NoOp EXCEPT !.op = "launch"]
    /\ nops = 0

Next ==
    \/ \E fn \in {"exec", "run"} : ShellCall(fn)
    \/ \E fn \in {"exec"} : ShellOriginal(fn)
    \/ \E t \in FsTargets : FsWrite(t)
    \/ \E h \in Hosts : NetConnect(h)
    \/ \E call \in GetCalls : EnvGet(call[1], call[2])
    \/ \E k \in SetKeys, m \in {"sloppy", "strict", "setitem", "putenv"} : EnvSet(k, m)
    \/ \E k \in RawKeys : EnvDel(k)
    \/ \E k \in RawKeys : EnvRaw(k)
    \/ PolicyChange(Flipped(policy))
    \/ Relaunch

Spec == Init /\ [][Next]_vars

(***************************************************************************)
(* The matching functions on their own: every target and host up to a      *)
(* length, against a few allow-lists                                       *)
(***************************************************************************)

\* longest target path and host name tried
MaxPathLen == 4

MaxHostLen == 4

PathChars == {"/", ".", "f", "b"}

HostChars == {"a", "e", "E", ".", ":"}

\* config.allowedDirs values tried: none, "/f", "/f/", the working directory
\* ".", the root, and two directories
DirChoices ==
    { <<>>, <<<<"/", "f">>>>, <<<<"/", "f", "/">>>>, <<<<".">>>>, <<<<"/">>>>,
      <<<<"/", "f">>, <<"/", "b">>>> }

\* config.allowedDomains values tried: none, "e", "E", "a.e", and two domains
DomainChoices ==
    { <<>>, <<<<"e">>>>, <<<<"E">>>>, <<<<"a", ".", "e">>>>, <<<<"e">>, <<"a">>>> }

\* two spellings of the audit file's path
AuditSpellings == {AuditPath, <<"/", "h", "/", "/", "t">>}

PathInputs ==
    { [kind |-> "path", lang |-> l, target |-> t, list |-> d] :
        l \in {"node", "python"},
        t \in StrUpTo(PathChars, MaxPathLen) \cup AuditSpellings,
        d \in DirChoices }

DomainInputs ==
    { [kind |-> "domain", lang |-> "node", target |-> h, list |-> d] :
        h \in StrUpTo(HostChars, MaxHostLen), d \in DomainChoices }

\* the stored policy when the file is missing (policy-manager.ts 56-68)
DefaultPolicy ==
    [blockShell |-> TRUE, blockSecrets |-> TRUE, blockNetwork |-> FALSE,
     blockFsWrite |-> FALSE, allowedDirs |-> <<>>, allowedDomains |-> <<>>]

\* no audit directory yet, the disk accepting writes
NoTrail == [dir |-> FALSE, file |-> FALSE, ok |-> TRUE, lines |-> <<>>, app |-> <<>>, deep |-> FALSE]

\* no skill operation is looked at: the stored policy is the default one and
\* the guards run under it with audit level "blocked"
SkillIdle ==
    /\ policy = DefaultPolicy
    /\ cfg = Loaded("node", TRUE, "blocked", DefaultPolicy)
    /\ environ = StartEnviron
    /\ spawned = 0
    /\ last = NoOp
    /\ nops = 0

GuardIdle == SkillIdle /\ fs = NoTrail

MatchInit ==
    /\ fnIn \in PathInputs \cup DomainInputs
    /\ fnOut = NotApplied
    /\ procs = NoProcs
    /\ GuardIdle

\* isPathAllowed(target) with config.allowedDirs = fnIn.list
ApplyPath ==
    /\ fnIn.kind = "path" /\ ~fnOut.done
    /\ fnOut' = [done |-> TRUE, val |-> isPathAllowed(fnIn.lang, fnIn.target, fnIn.list)]
    /\ UNCHANGED <<fnIn, procs, guardVars>>

\* isDomainAllowed(host) with config.allowedDomains = fnIn.list
ApplyDomain ==
    /\ fnIn.kind = "domain" /\ ~fnOut.done
    /\ fnOut' = [done |-> TRUE, val |-> isDomainAllowed(fnIn.target, fnIn.list)]
    /\ UNCHANGED <<fnIn, procs, guardVars>>

MatchNext == ApplyPath \/ ApplyDomain

SpecMatch == MatchInit /\ [][MatchNext]_vars

(***************************************************************************)
(* The audit trail shared by several processes.  One step is one system    *)
(* call; the guards run under the default policy with audit level          *)
(* "blocked", where their own calls reach the library functions unlogged.  *)
(***************************************************************************)

\* entries each process appends
MaxAppends == 1

\* the n-th entry process p has left to write
TrailEntry(p, n) == [by |-> p, n |-> n]

\* where a writer starts: AuditLoggerService's constructor and the Node guard's
\* writeAudit call ensureAuditFile, which looks for the directory first;
\* _ensure_audit_file calls os.makedirs(..., exist_ok=True) without looking
FirstStep(p) == IF p = "python" THEN "mkdir" ELSE "checkDir"

\* after an append: AuditLoggerService.log appends again without looking (the
\* constructor alone calls ensureAuditFile); the guards run writeAudit /
\* _write_audit from the top for every entry
AfterAppend(p, left) ==
    IF left = 0 THEN "done" ELSE IF p = "backend" THEN "append" ELSE FirstStep(p)

trailFrame == <<fnIn, fnOut, policy, cfg, environ, spawned, last, nops>>

\* fs.existsSync(dir)
CheckDir(p) ==
    /\ procs[p].pc = "checkDir"
    /\ procs' = [procs EXCEPT ![p].pc = IF fs.dir THEN "checkFile" ELSE "mkdir"]
    /\ UNCHANGED <<fs, trailFrame>>

\* fs.mkdirSync(dir, {recursive: true}) / os.makedirs(dir, exist_ok=True)
Mkdir(p) ==
    /\ procs[p].pc = "mkdir"
    /\ fs' = RealMkdir(fs).fs
    /\ procs' = [procs EXCEPT ![p].pc = "checkFile"]
    /\ UNCHANGED trailFrame

\* fs.existsSync(auditPath) / os.path.exists(AUDIT_PATH)
CheckFile(p) ==
    /\ procs[p].pc = "checkFile"
    /\ procs' = [procs EXCEPT ![p].pc = IF fs.file THEN "append" ELSE "create"]
    /\ UNCHANGED <<fs, trailFrame>>

\* fs.writeFileSync(auditPath, '') / open(AUDIT_PATH, "w"): creates the file
\* or empties the one that is there
Create(p) ==
    /\ procs[p].pc = "create"
    /\ fs' = RealCreate(fs).fs
    /\ procs' = [procs EXCEPT ![p].pc = "append"]
    /\ UNCHANGED trailFrame

\* fs.appendFileSync(auditPath, line) / open(AUDIT_PATH, "a").write(line)
AppendEntry(p) ==
    /\ procs[p].pc = "append"
    /\ fs' = Caught(RealAppend(fs, TrailEntry(p, procs[p].left))).fs
    /\ procs' = [procs EXCEPT ![p] = [pc |-> AfterAppend(p, procs[p].left - 1),
                                      left |-> procs[p].left - 1]]
    /\ UNCHANGED trailFrame

\* the trail before the processes start: no directory, a directory without
\* the file, or the file there and empty
TrailStart ==
    { NoTrail, [NoTrail EXCEPT !.dir = TRUE], [NoTrail EXCEPT !.dir = TRUE, !.file = TRUE] }

TrailInit ==
    /\ fnIn = "-" /\ fnOut = NotApplied
    /\ SkillIdle
    /\ fs \in TrailStart
    /\ procs = [p \in Procs |-> [pc |-> FirstStep(p), left |-> MaxAppends]]

TrailNext ==
    \E p \in Procs :
        CheckDir(p) \/ Mkdir(p) \/ CheckFile(p) \/ Create(p) \/ AppendEntry(p)

SpecTrail == TrailInit /\ [][TrailNext]_vars

(***************************************************************************)
(* Reading the trail: AuditLoggerService.getRecentEntries, while several   *)
(* processes build their entries (taking the timestamp) and append them    *)
(***************************************************************************)

\* largest limit handed to getRecentEntries
MaxLimit == 2

\* a line of the trail: a record that parses (with its writer and timestamp)
\* or a malformed line
Line(by, ts) == [valid |-> TRUE, by |-> by, ts |-> ts]

BadLine == [valid |-> FALSE, by |-> "-", ts |-> 0]

RECURSIVE RecentFrom(_, _, _, _)
\* the loop of getRecentEntries (part_005 141-147): from the last line
\* backwards while fewer than limit entries are collected; a line that does
\* not parse is skipped
RecentFrom(lines, i, limit, entries) ==
    IF i < 1 \/ Len(entries) >= limit THEN entries
    ELSE RecentFrom(lines, i - 1, limit,
                    IF lines[i].valid THEN Append(entries, lines[i]) ELSE entries)

\* AuditLoggerService.getRecentEntries(limit) on a file holding lines
getRecentEntries(lines, limit) == RecentFrom(lines, Len(lines), limit, <<>>)

\* new Date().toISOString() / datetime.utcnow(): later than every timestamp
\* taken so far
Now == 1 + Cardinality({p \in Procs : procs[p].ts > 0})

recentFrame == <<policy, cfg, environ, spawned, last, nops>>

\* the entry is built: `timestamp: new Date().toISOString()` (part_005 47-55,
\* node-guard.ts 66-74, python guard 53-61)
TakeStamp(p) ==
    /\ procs[p].pc = "stamp"
    /\ procs' = [procs EXCEPT ![p] = [pc |-> "append", left |-> @.left, ts |-> Now]]
    /\ UNCHANGED <<fs, fnIn, fnOut, recentFrame>>

\* fs.appendFileSync(auditPath, JSON.stringify(entry) + '\n')
AppendStamped(p) ==
    /\ procs[p].pc = "append"
    /\ fs' = Caught(RealAppend(fs, Line(p, procs[p].ts))).fs
    /\ procs' = [procs EXCEPT ![p].pc = "done", ![p].left = @ - 1]
    /\ UNCHANGED <<fnIn, fnOut, recentFrame>>

\* getRecentEntries(limit), once, at any moment
ReadRecent(limit) ==
    /\ ~fnOut.done
    /\ fnIn = limit
    /\ fnOut' = [done |-> TRUE, val |-> getRecentEntries(fs.lines, limit)]
    /\ UNCHANGED <<fnIn, fs, procs, recentFrame>>

\* the trail before the writers start: empty, or an older record, with or
\* without a malformed line before or after it
OlderLines ==
    { <<>>, <<Line("old", 0)>>, <<BadLine, Line("old", 0)>>, <<Line("old", 0), BadLine>> }

RecentInit ==
    /\ fnIn \in 0..MaxLimit
    /\ fnOut = NotApplied
    /\ SkillIdle
    /\ \E ls \in OlderLines :
          fs = [dir |-> TRUE, file |-> TRUE, ok |-> TRUE, lines |-> ls, app |-> <<>>, deep |-> FALSE]
    /\ procs = [p \in Procs |-> [pc |-> "stamp", left |-> 1, ts |-> 0]]

RecentNext ==
    \/ \E p \in Procs : TakeStamp(p) \/ AppendStamped(p)
    \/ \E n \in 0..MaxLimit : ReadRecent(n)

SpecRecent == RecentInit /\ [][RecentNext]_vars

(***************************************************************************)
(* The risk score of a scan: RiskScannerService.calculateScore,            *)
(* getRecommendation and the recommendation sentence of the explanation.   *)
(* weight / 4 is not always a whole number, so sums are kept in quarters   *)
(* of a point.                                                             *)
(***************************************************************************)

\* most findings in one scored list
MaxFlags == 5

\* RISK_THRESHOLDS.SAFE_MAX, RISK_THRESHOLDS.WARNING_MAX
SAFE_MAX == 30

WARNING_MAX == 60

\* calculateScore typeWeights, with `|| 5` for a type that is not in the table
typeWeights(type) ==
    CASE type = "shell_execution"      -> 25
      [] type = "filesystem_write"     -> 15
      [] type = "filesystem_delete"    -> 20
      [] type = "network_call"         -> 20
      [] type = "remote_script_exec"   -> 30
      [] type = "obfuscation"          -> 25
      [] type = "credential_access"    -> 20
      [] type = "suspicious_long_line" -> 10
      [] type = "dependency_script"    -> 20
      [] type = "dependency_url"       -> 20
      [] type = "dependency_index"     -> 20
      [] type = "dependency_unpinned"  -> 10
      [] type = "native_binary"        -> 25
      [] type = "dynamic_require"      -> 10
      [] type = "dynamic_import"       -> 10
      [] type = "sensitive_import"     -> 5
      [] type = "runtime_blocked"      -> 15
      [] OTHER                         -> 5

Min(a, b) == IF a <= b THEN a ELSE b

\* a count that is not capped
UncappedExtra(count) == count - 1

\* Math.min(count - 1, 3)
CappedExtra(count) == Min(count - 1, 3)

\* weight + Math.min(count - 1, 3) * (weight / 4), in quarters
TypeTerm(weight, count) == 4 * weight + CappedExtra(count) * weight

RECURSIVE CountTypes(_, _, _)
\* the loop `typeCount[flag.type] = (typeCount[flag.type] || 0) + 1`
CountTypes(flags, i, typeCount) ==
    IF i > Len(flags) THEN typeCount
    ELSE LET ty == flags[i].type IN
         CountTypes(flags, i + 1,
                    [x \in DOMAIN typeCount \cup {ty} |->
                        IF x = ty
                        THEN (IF ty \in DOMAIN typeCount THEN typeCount[ty] ELSE 0) + 1
                        ELSE typeCount[x]])

RECURSIVE SumTerms(_, _)
\* the loop over Object.entries(typeCount), in quarters
SumTerms(typeCount, types) ==
    IF types = {} THEN 0
    ELSE LET ty == CHOOSE x \in types : TRUE IN
         TypeTerm(typeWeights(ty), typeCount[ty]) + SumTerms(typeCount, types \ {ty})

\* Math.round of a number of quarters that is not negative: halves go up
MathRound(quarters) == (quarters + 2) \div 4

\* RiskScannerService.calculateScore
calculateScore(flags) ==
    LET typeCount == CountTypes(flags, 1, <<>>)
    IN  MathRound(SumTerms(typeCount, DOMAIN typeCount))

\* a tier test that leaves the boundary score out
getRecommendationStrict(score) ==
    IF score < SAFE_MAX THEN "allow"
    ELSE IF score < WARNING_MAX THEN "sandbox"
    ELSE "block"

\* constants.ts getRecommendation
getRecommendation(score) ==
    IF score <= SAFE_MAX THEN "allow"
    ELSE IF score <= WARNING_MAX THEN "sandbox"
    ELSE "block"

\* generateExplanation: which recommendation sentence the text ends with
\* ("none": the text for no findings, which has no such sentence)
generateExplanation(flags, score) ==
    IF Len(flags) = 0 THEN "none"
    ELSE IF score <= SAFE_MAX THEN "safe to use"
    ELSE IF score <= WARNING_MAX THEN "review, sandbox"
    ELSE "high risk, block"

\* the RiskScanResult scanSkill builds from the collected flags (part_006
\* 66-84)
ScanResult(flags) ==
    LET totalScore == calculateScore(flags) IN
    [ score          |-> Min(100, totalScore),
      flags          |-> flags,
      explanation    |-> generateExplanation(flags, totalScore),
      recommendation |-> getRecommendation(totalScore) ]

\* the finding types of the scored lists: five that together pass 100, one
\* whose quarter is a half point, one whose quarter is a quarter point, and
\* one that is not in the table
ScoredTypes ==
    { "remote_script_exec", "shell_execution", "obfuscation", "network_call",
      "dynamic_require", "sensitive_import", "other" }

ScoreInputs ==
    { [kind |-> "score", flags |-> [i \in 1..Len(ts) |-> [type |-> ts[i]]]] :
        ts \in StrUpTo(ScoredTypes, MaxFlags) }

ScoreInit ==
    /\ fnIn \in ScoreInputs
    /\ fnOut = NotApplied
    /\ procs = NoProcs
    /\ GuardIdle

\* the tail of scanSkill: score, explanation, recommendation
BuildResult ==
    /\ fnIn.kind = "score" /\ ~fnOut.done
    /\ fnOut' = [done |-> TRUE, val |-> ScanResult(fnIn.flags)]
    /\ UNCHANGED <<fnIn, procs, guardVars>>

SpecScore == ScoreInit /\ [][BuildResult]_vars

(***************************************************************************)
(* The detectors of a scan: RiskScannerService.scanFile, checkPatterns and *)
(* scanAst.  A file is its name, its extension, whether it can be read and *)
(* its lines; a line is its text.                                          *)
(***************************************************************************)

\* RiskScannerService.getLanguageCategory
getLanguageCategory(ext) ==
    CASE ext \in {".js", ".ts", ".jsx", ".tsx", ".mjs", ".cjs"} -> "js"
      [] ext \in {".py", ".pyw"}                                -> "python"
      [] ext \in {".sh", ".bash", ".zsh", ".ps1"}               -> "bash"
      [] OTHER                                                  -> "all"

\* RISK_PATTERNS: the lines of the scanned files that some expression of the
\* group tests true on, by language key ("all": the group's all-language expressions)
\*   SHELL.js /\bexec\s*\(/, SHELL.python /subprocess\./, SHELL.bash /\beval\s+/
\*   NETWORK.js /\bfetch\s*\(/, NETWORK.python /requests\.(get|...)/,
\*   NETWORK.bash /\bcurl\b/, OBFUSCATION.python /\bexec\s*\(/,
\*   OBFUSCATION.js and OBFUSCATION.python /\beval\s*\(/
RISK_PATTERNS(group, key) ==
    CASE group = "SHELL" /\ key = "js"           -> {"exec(cmd)"}
      [] group = "SHELL" /\ key = "python"       -> {"subprocess.run(cmd)"}
      [] group = "SHELL" /\ key = "bash"         -> {"eval $cmd"}
      [] group = "NETWORK" /\ key = "js"         -> {"fetch(url)"}
      [] group = "NETWORK" /\ key = "python"     -> {"requests.get(url)"}
      [] group = "NETWORK" /\ key = "bash"       -> {"curl $url"}
      [] group = "OBFUSCATION" /\ key = "js"     -> {"eval(x)"}
      [] group = "OBFUSCATION" /\ key = "python" -> {"exec(cmd)", "eval(x)"}
      [] OTHER                                   -> {}

\* a RiskFlag; line 0 and evidence "" stand for a field that is not set
RiskFlag(type, location, line, source, evidence) ==
    [type |-> type, location |-> location, line |-> line, source |-> source,
     evidence |-> evidence]

\* flags.some(f => f.type === type)
FlagsOfTypeIn(flags, type) == \E i \in 1..Len(flags) : flags[i].type = type

RECURSIVE checkPatternsFrom(_, _, _, _, _, _, _)
\* the loop of checkPatterns over the lines: the expressions of the file's
\* language and the all-language ones, one flag per line and type
checkPatternsFrom(lines, i, filePath, langCategory, group, flagType, flags) ==
    IF i > Len(lines) THEN flags
    ELSE checkPatternsFrom(lines, i + 1, filePath, langCategory, group, flagType,
            IF /\ lines[i] \in RISK_PATTERNS(group, langCategory) \cup RISK_PATTERNS(group, "all")
               /\ ~ \E k \in 1..Len(flags) :
                       /\ flags[k].type = flagType /\ flags[k].line = i
                       /\ flags[k].location = filePath
            THEN Append(flags, RiskFlag(flagType, filePath, i, "regex", ""))
            ELSE flags)

\* RiskScannerService.checkPatterns
checkPatterns(lines, filePath, langCategory, group, flagType) ==
    checkPatternsFrom(lines, 1, filePath, langCategory, group, flagType, <<>>)

\* the flagged node the syntax tree of a line holds: a call whose callee is
\* the identifier exec (in shellCallees), fetch or eval (in
\* obfuscationCallees); the other lines parse to
\* calls and declarations that no visitor flags
AstNode(line) ==
    CASE line = "exec(cmd)"  -> [type |-> "shell_execution", evidence |-> "exec"]
      [] line = "fetch(url)" -> [type |-> "network_call", evidence |-> "fetch"]
      [] line = "eval(x)"    -> [type |-> "obfuscation", evidence |-> "eval"]
      [] OTHER               -> [type |-> "-", evidence |-> ""]

RECURSIVE scanAstFrom(_, _, _, _, _)
\* traverse with addFlag: a flag per flagged node unless its key
\* type:file:line:evidence was seen
scanAstFrom(lines, i, filePath, seen, flags) ==
    IF i > Len(lines) THEN flags
    ELSE LET n   == AstNode(lines[i])
             key == <<n.type, filePath, i, n.evidence>>
         IN  IF n.type = "-" \/ key \in seen
             THEN scanAstFrom(lines, i + 1, filePath, seen, flags)
             ELSE scanAstFrom(lines, i + 1, filePath, seen \cup {key},
                              Append(flags, RiskFlag(n.type, filePath, i, "ast", n.evidence)))

\* RiskScannerService.scanAst: files of the js extensions only
scanAst(file) ==
    IF file.ext \notin {".js", ".ts", ".jsx", ".tsx", ".mjs", ".cjs"} THEN <<>>
    ELSE scanAstFrom(file.lines, 1, file.name, {}, <<>>)

\* RiskScannerService.scanFile; a file that cannot be read gives no flag (the
\* catch at part_006 189-191); no line of the scanned files is longer than 500 characters,
\* so the long-line loop adds nothing
scanFile(file) ==
    IF ~file.readable THEN <<>>
    ELSE LET lang == getLanguageCategory(file.ext)
             pat(group, flagType) ==
                 checkPatterns(file.lines, file.name, lang, group, flagType)
         IN  pat("SHELL", "shell_execution")
             \o pat("FILESYSTEM_WRITE", "filesystem_write")
             \o pat("FILESYSTEM_DELETE", "filesystem_delete")
             \o pat("NETWORK", "network_call")
             \o checkPatterns(file.lines, file.name, "all", "REMOTE_EXEC", "remote_script_exec")
             \o pat("OBFUSCATION", "obfuscation")
             \o pat("CREDENTIALS", "credential_access")
             \o scanAst(file)

(***************************************************************************)
(* Skill ids: Buffer.from(path).toString('base64url').slice(0, 16) in      *)
(* SkillDiscoveryService.parseSkill and in the run command.  A base64url   *)
(* text is the sequence of its digits' values (0..63).                     *)
(***************************************************************************)

\* the character codes of the characters the skill paths are made of
CharCode(c) ==
    CASE c = "." -> 46  [] c = "/" -> 47  [] c = "a" -> 97  [] c = "b" -> 98
      [] c = "c" -> 99  [] c = "e" -> 101 [] c = "h" -> 104 [] c = "i" -> 105
      [] c = "k" -> 107 [] c = "l" -> 108 [] c = "n" -> 110 [] c = "o" -> 111
      [] c = "p" -> 112 [] c = "s" -> 115 [] c = "w" -> 119

RECURSIVE Base64Url(_)
\* Buffer.toString('base64url') of a sequence of bytes: three bytes give four
\* digits, a last group of one or two bytes gives two or three, no padding
Base64Url(bytes) ==
    IF Len(bytes) = 0 THEN <<>>
    ELSE IF Len(bytes) = 1
         THEN << bytes[1] \div 4, (bytes[1] % 4) * 16 >>
    ELSE IF Len(bytes) = 2
         THEN << bytes[1] \div 4, (bytes[1] % 4) * 16 + bytes[2] \div 16,
                 (bytes[2] % 16) * 4 >>
    ELSE << bytes[1] \div 4, (bytes[1] % 4) * 16 + bytes[2] \div 16,
            (bytes[2] % 16) * 4 + bytes[3] \div 64, bytes[3] % 64 >>
         \o Base64Url(SubSeq(bytes, 4, Len(bytes)))

\* the length the ids are cut to
IdLength == 16

\* String.slice(0, 16)
Slice16(text) == SubSeq(text, 1, Min(IdLength, Len(text)))

\* the id of a path: Buffer.from(path).toString('base64url').slice(0, 16)
PathId(p) == Slice16(Base64Url([i \in 1..Len(p) |-> CharCode(p[i])]))

\* run.ts: skillId of path.resolve(skillPath)
skillId(skillPath) == PathId(normalizePath(skillPath))

\* SkillDiscoveryService.parseSkill: the id of the discovered folder's path
parseSkillId(skillPath) == PathId(skillPath)

\* path.join(DEFAULT_OPENCLAW_PATH, 'skills') with the home directory "/h",
\* and <workspace>/skills with the workspace Cwd
ManagedSkills ==
    <<"/", "h", "/", ".", "o", "p", "e", "n", "c", "l", "a", "w",
      "/", "s", "k", "i", "l", "l", "s">>

WorkspaceSkills == Cwd \o <<"/", "s", "k", "i", "l", "l", "s">>

(***************************************************************************)
(* Scanning skills: RiskScannerService.scanSkill and scanSkillPath, the    *)
(* route POST /skills/:id/scan, guarded runs of the skills and the other   *)
(* writers of the trail.  Two skill folders, S and T; fnIn holds their     *)
(* paths and S's tree; T's folder holds SKILL.md and nothing else.         *)
(***************************************************************************)

\* most entries in the trail
MaxTrail == 4

\* the window of scanBehavior, lines.slice(-2000), scaled down
BehaviorWindow == 2

Skills == <<"S", "T">>

\* an AuditEntry of the trail the scanner reads
AuditEntry(action, result, id, name, kind, fn) ==
    [action |-> action, result |-> result, skillId |-> id, skillName |-> name,
     kind |-> kind, fn |-> fn]

\* the tree of a skill folder: whether the folder is there, and the source
\* files listSkillFiles finds in it
Tree(exists, files) == [exists |-> exists, files |-> files]

SourceFile(name, ext, readable, lines) ==
    [name |-> name, ext |-> ext, readable |-> readable, lines |-> lines]

\* SKILL.md of a folder that is there; no line of it matches an expression
SkillMd == SourceFile("SKILL.md", ".md", TRUE, <<"let x = 1">>)

Trees ==
    { Tree(FALSE, <<>>),
      Tree(TRUE, <<>>),
      Tree(TRUE, <<SourceFile("main.js", ".js", TRUE, <<"exec(cmd)", "fetch(url)">>)>>),
      Tree(TRUE, <<SourceFile("main.py", ".py", TRUE,
                              <<"subprocess.run(cmd)", "requests.get(url)">>)>>),
      Tree(TRUE, <<SourceFile("main.sh", ".sh", TRUE, <<"eval $cmd", "curl $url">>)>>),
      Tree(TRUE, <<SourceFile("main.js", ".js", FALSE, <<"exec(cmd)", "fetch(url)">>)>>) }

\* the tree at a skill's path
TreeOf(k) == IF k = "S" THEN fnIn.tree ELSE Tree(TRUE, <<>>)

\* SkillDiscoveryService.listSkillFiles: glob finds nothing under a path that
\* is not there
listSkillFiles(tree) == IF tree.exists THEN tree.files ELSE <<>>

RECURSIVE scanFiles(_, _)
\* the loop of scanSkill over the files
scanFiles(files, i) ==
    IF i > Len(files) THEN <<>> ELSE scanFile(files[i]) \o scanFiles(files, i + 1)

\* RiskScannerService.scanDependencies: the trees above hold no manifest, no
\* lockfile and no binary, so every existsSync is false and glob finds nothing
scanDependencies(tree) == <<>>

\* a field the JSON object does not hold reads as undefined
Undefined == "undefined"

\* !value for a string or undefined
Falsy(value) == value \in {Undefined, ""}

\* a skillId that is undefined or empty; ids are sequences of base64url digits
NoId == <<>>

\* lines that are no JSON object: one that JSON.parse rejects, and one of
\* white space only
MalformedLine == [text |-> "not json"]

BlankLine == [text |-> " "]

\* JSON.parse(line) returns
Parses(line) == "text" \notin DOMAIN line

\* result === 'blocked' for a result read as it is
resultStrict(entry) == entry.result

\* entry.result || 'blocked'
resultOf(entry) == IF Falsy(entry.result) THEN "blocked" ELSE entry.result

RECURSIVE scanBehaviorFrom(_, _, _)
\* the loop of scanBehavior over recentLines
scanBehaviorFrom(recentLines, i, id) ==
    IF i > Len(recentLines) THEN <<>>
    ELSE LET entry == recentLines[i] IN
         (IF ~Parses(entry) THEN <<>>
          ELSE IF entry.action /= "runtime" THEN <<>>
          ELSE IF entry.skillId = NoId \/ entry.skillId /= id THEN <<>>
          ELSE IF resultOf(entry) /= "blocked" THEN <<>>
          ELSE << RiskFlag("runtime_blocked", "audit.jsonl", 0, "behavior",
                           "kind=" \o entry.kind \o " fn=" \o entry.fn) >>)
         \o scanBehaviorFrom(recentLines, i + 1, id)

\* content.split('\n').filter(line => line.trim().length > 0)
NonEmptyLines(lines) == SelectSeq(lines, LAMBDA line : line /= BlankLine)

\* lines.slice(-2000)
RecentLines(lines) ==
    SubSeq(lines, Len(lines) - Min(BehaviorWindow, Len(lines)) + 1, Len(lines))

\* RiskScannerService.scanBehavior
scanBehavior(id, f) ==
    IF ~f.file THEN <<>> ELSE scanBehaviorFrom(RecentLines(NonEmptyLines(f.lines)), 1, id)

\* RiskScannerService.scanSkill
scanSkill(id, tree, f) ==
    ScanResult(scanFiles(listSkillFiles(tree), 1)
               \o (IF tree.exists THEN scanFile(SkillMd) ELSE <<>>)
               \o scanDependencies(tree)
               \o scanBehavior(id, f))

\* RiskScannerService.scanSkillPath: a temporary skill with the id "temp"
scanSkillPath(tree, f) == scanSkill("temp", tree, f)

\* the path of skill k
PathOf(k) == fnIn.path[k]

\* SkillDiscoveryService.discoverSkills: the folders that hold a SKILL.md, in
\* directory order
discoverSkills == SelectSeq(Skills, LAMBDA k : TreeOf(k).exists)

\* SkillDiscoveryService.getSkillById: the first discovered skill with the id
getSkillById(id) ==
    LET found == SelectSeq(discoverSkills, LAMBDA k : parseSkillId(PathOf(k)) = id)
    IN  IF found = <<>> THEN "null" ELSE found[1]

\* a reply of the scan operations
NoReply == [status |-> "none"]

NotFound == [status |-> "error"]

Reply(risk) == [status |-> "ok", risk |-> risk]

scanFrame == <<fnIn, procs, policy, cfg, environ, spawned, last, nops>>

\* POST /skills/:id/scan with the id of skill k: 404 if no skill has the id,
\* else the skill found is scanned and the scan is logged
Rescan(k) ==
    LET skill == getSkillById(parseSkillId(PathOf(k))) IN
    /\ fnIn.kind = "scan" /\ Len(fs.app) < MaxTrail
    /\ IF skill = "null"
       THEN /\ fnOut' = [fnOut EXCEPT !.done = TRUE, !.val[k] = NotFound]
            /\ fs' = fs
       ELSE /\ fnOut' = [fnOut EXCEPT !.done = TRUE,
                             !.val[skill] = Reply(scanSkill(parseSkillId(PathOf(skill)),
                                                            TreeOf(skill), fs))]
            /\ fs' = BackendLog(fs, AuditEntry("scan", "success",
                                               parseSkillId(PathOf(skill)), skill, "-", "-"))
    /\ UNCHANGED scanFrame

\* scanSkillPath with the path of S
Preflight ==
    /\ fnIn.kind = "scan" /\ fnOut.val["path"] = NoReply
    /\ fnOut' = [fnOut EXCEPT !.done = TRUE, !.val["path"] = Reply(scanSkillPath(TreeOf("S"), fs))]
    /\ UNCHANGED <<fs, scanFrame>>

\* a guarded run of skill k, started by the run command, blocks a shell call
\* and logs it (node-guard.ts 63-79, 185)
GuardedRun(k) ==
    /\ fnIn.kind = "scan" /\ Len(fs.app) < MaxTrail
    /\ TreeOf(k).exists
    /\ fs' = Caught(RealAppend(fs, AuditEntry("runtime", "blocked", skillId(PathOf(k)), k,
                                              "shell", "exec"))).fs
    /\ UNCHANGED <<fnOut, scanFrame>>

\* the backend logs an entry that is no runtime entry: logPolicyChange,
\* logToggle
OtherEntry(action) ==
    /\ fnIn.kind = "scan" /\ Len(fs.app) < MaxTrail
    /\ fs' = BackendLog(fs, AuditEntry(action, "success", "-", "-", "-", "-"))
    /\ UNCHANGED <<fnOut, scanFrame>>

\* the skill paths: two managed skills, two workspace skills, one of each
PathPairs ==
    { [S |-> ManagedSkills \o <<"/", "a">>, T |-> ManagedSkills \o <<"/", "b">>],
      [S |-> WorkspaceSkills \o <<"/", "a">>, T |-> WorkspaceSkills \o <<"/", "b">>],
      [S |-> ManagedSkills \o <<"/", "a">>, T |-> WorkspaceSkills \o <<"/", "a">>] }

ScanInputs ==
    { [kind |-> "scan", path |-> pp, tree |-> tr] : pp \in PathPairs, tr \in Trees }

ScanInit ==
    /\ fnIn \in ScanInputs
    /\ fnOut = [done |-> FALSE, val |-> [k \in {"S", "T", "path"} |-> NoReply]]
    /\ procs = NoProcs
    /\ SkillIdle
    /\ fs = [dir |-> TRUE, file |-> TRUE, ok |-> TRUE, lines |-> <<>>, app |-> <<>>, deep |-> FALSE]

ScanNext ==
    \/ \E k \in {"S", "T"} : Rescan(k) \/ GuardedRun(k)
    \/ Preflight
    \/ \E action \in {"policy_change", "disable"} : OtherEntry(action)

SpecScan == ScanInit /\ [][ScanNext]_vars

(***************************************************************************)
(* The stored policy: PolicyManagerService.loadConfig and the setters of   *)
(* the default policy.  A JSON object is a function from the names of the  *)
(* fields it holds; fnIn is the config file, policy the defaultPolicy the  *)
(* service holds in memory.                                                *)
(***************************************************************************)

PolicyFields ==
    {"allowedDirs", "allowedDomains", "blockShell", "blockSecrets", "blockNetwork",
     "blockFsWrite"}

Gates == {"blockShell", "blockSecrets", "blockNetwork", "blockFsWrite"}

\* obj.field || fallback, obj.field ?? fallback for a field that is absent
OrElse(obj, field, fallback) == IF field \in DOMAIN obj THEN obj[field] ELSE fallback

\* the stored object taken as it is
Undefaulted(defaultPolicy) == defaultPolicy

\* the defaultPolicy loadConfig returns from the parsed one (policy-manager.ts
\* 42-49)
Defaulted(defaultPolicy) ==
    [allowedDirs    |-> OrElse(defaultPolicy, "allowedDirs", <<>>),
     allowedDomains |-> OrElse(defaultPolicy, "allowedDomains", <<>>),
     blockShell     |-> OrElse(defaultPolicy, "blockShell", TRUE),
     blockSecrets   |-> OrElse(defaultPolicy, "blockSecrets", TRUE),
     blockNetwork   |-> OrElse(defaultPolicy, "blockNetwork", FALSE),
     blockFsWrite   |-> OrElse(defaultPolicy, "blockFsWrite", FALSE)]

\* PolicyManagerService.loadConfig: the defaultPolicy of the config it returns
loadConfig(file) ==
    IF file.state = "json"
    THEN Defaulted(OrElse(file.parsed, "defaultPolicy", DefaultPolicy))
    ELSE DefaultPolicy

\* PolicyManagerService.saveConfig: the file after the call; a disk that
\* refuses the write leaves it as it was (the call then throws)
saveConfig(file, pol) ==
    IF file.ok THEN [file EXCEPT !.state = "json", !.parsed = [defaultPolicy |-> pol]]
    ELSE file

\* the values of the fields in files and bodies
DirPerms == { [path |-> <<"/", "f">>, mode |-> m] : m \in {"read", "readwrite"} }

DomainNames == { <<"e">>, <<"a">> }

\* policies with a value for every field
FullPolicies ==
    [allowedDirs    : { <<>>, <<[path |-> <<"/", "f">>, mode |-> "readwrite"]>> },
     allowedDomains : { <<>>, <<<<"e">>>> },
     blockShell     : BOOLEAN,
     blockSecrets   : {FALSE},
     blockNetwork   : BOOLEAN,
     blockFsWrite   : {TRUE}]

\* the objects that hold any subset of the policy's fields
PartialPolicies ==
    { [f \in D |-> full[f]] : full \in FullPolicies, D \in SUBSET PolicyFields }

ConfigFile(ok, state, parsed) ==
    [kind |-> "config", ok |-> ok, state |-> state, parsed |-> parsed]

\* the config files a service starts from: none, one that does not parse, one
\* with no defaultPolicy, one with a defaultPolicy of any subset of the fields
ConfigFiles ==
    { ConfigFile(ok, st, <<>>) : ok \in BOOLEAN, st \in {"missing", "corrupt"} }
    \cup { ConfigFile(TRUE, "json", <<>>) }
    \cup { ConfigFile(TRUE, "json", [defaultPolicy |-> o]) : o \in PartialPolicies }

policyFrame == <<fs, cfg, environ, spawned, last, nops, procs>>

\* a setter has run: memory is set, then saveConfig
Set(pol) ==
    /\ policy' = pol
    /\ fnIn' = saveConfig(fnIn, pol)
    /\ fnOut' = [done |-> TRUE, val |-> "set"]
    /\ UNCHANGED policyFrame

\* PolicyManagerService.updateDefaultPolicy: {...defaultPolicy, ...policy}
updateDefaultPolicy(body) ==
    /\ fnIn.kind = "config"
    /\ Set(body @@ policy)

\* PolicyManagerService.addAllowedDir
addAllowedDir(dirPerm) ==
    /\ fnIn.kind = "config"
    /\ Set([policy EXCEPT !.allowedDirs =
               IF \E i \in 1..Len(@) : @[i].path = dirPerm.path
               THEN [i \in 1..Len(@) |->
                        IF @[i].path = dirPerm.path THEN [@[i] EXCEPT !.mode = dirPerm.mode]
                        ELSE @[i]]
               ELSE Append(@, dirPerm)])

\* PolicyManagerService.removeAllowedDir
removeAllowedDir(dirPath) ==
    /\ fnIn.kind = "config"
    /\ Set([policy EXCEPT !.allowedDirs = SelectSeq(@, LAMBDA d : d.path /= dirPath)])

\* PolicyManagerService.addAllowedDomain: nothing happens for a listed domain
addAllowedDomain(domain) ==
    /\ fnIn.kind = "config"
    /\ ~ \E i \in 1..Len(policy.allowedDomains) : policy.allowedDomains[i] = domain
    /\ Set([policy EXCEPT !.allowedDomains = Append(@, domain)])

\* PolicyManagerService.removeAllowedDomain
removeAllowedDomain(domain) ==
    /\ fnIn.kind = "config"
    /\ Set([policy EXCEPT !.allowedDomains = SelectSeq(@, LAMBDA d : d /= domain)])

\* the backend starts again: the constructor loads the file as it is now
Restart ==
    /\ fnIn.kind = "config" /\ fnOut.done
    /\ policy' = loadConfig(fnIn)
    /\ fnOut' = [done |-> FALSE, val |-> "loaded"]
    /\ UNCHANGED <<fnIn, policyFrame>>

\* after construction: the policy is the one loaded from the file
PolicyInit ==
    /\ fnIn \in ConfigFiles
    /\ policy = loadConfig(fnIn)
    /\ fnOut = [done |-> FALSE, val |-> "loaded"]
    /\ procs = NoProcs
    /\ cfg = Loaded("node", TRUE, "blocked", DefaultPolicy)
    /\ environ = StartEnviron
    /\ spawned = 0
    /\ last = NoOp
    /\ nops = 0
    /\ fs = NoTrail

PolicyNext ==
    \/ \E body \in PartialPolicies : updateDefaultPolicy(body)
    \/ \E dirPerm \in DirPerms : addAllowedDir(dirPerm)
    \/ \E dirPerm \in DirPerms : removeAllowedDir(dirPerm.path)
    \/ \E domain \in DomainNames : addAllowedDomain(domain) \/ removeAllowedDomain(domain)
    \/ Restart

SpecPolicy == PolicyInit /\ [][PolicyNext]_vars

(***************************************************************************)
(* Skill toggles of the stored configuration:                              *)
(* PolicyManagerService.isSkillEnabled, enableSkill, disableSkill.  A      *)
(* configuration is a record that holds enabledSkills and disabledSkills.  *)
(***************************************************************************)

\* Array.includes
Includes(list, x) == \E i \in 1..Len(list) : list[i] = x

\* Array.filter(id => id !== x)
Without(list, x) == SelectSeq(list, LAMBDA y : y /= x)

\* PolicyManagerService.isSkillEnabled
isSkillEnabled(config, id) ==
    IF Includes(config.disabledSkills, id) THEN FALSE
    ELSE IF Includes(config.enabledSkills, id) THEN TRUE
    ELSE TRUE

\* an enableSkill that leaves disabledSkills alone
enableSkillOnly(config, id) ==
    [config EXCEPT !.enabledSkills = IF Includes(@, id) THEN @ ELSE Append(@, id)]

\* PolicyManagerService.enableSkill: the configuration it sets
enableSkill(config, id) ==
    [config EXCEPT !.disabledSkills = Without(@, id),
                   !.enabledSkills = IF Includes(@, id) THEN @ ELSE Append(@, id)]

\* PolicyManagerService.disableSkill: the configuration it sets
disableSkill(config, id) ==
    [config EXCEPT !.enabledSkills = Without(@, id),
                   !.disabledSkills = IF Includes(@, id) THEN @ ELSE Append(@, id)]

(***************************************************************************)
(* Administrative operations: the routes POST /preflight, /install,        *)
(* /policies, /config/workspace, /skills/:id/toggle, /skills/:id/scan and  *)
(* the commands install, preflight, scan and config --reset.  fnIn holds   *)
(* whether the clawhub tool is there and the configuration file, policy    *)
(* the backend's default policy, fs the trail and the skills installed in  *)
(* the workspace, fnOut what the preflight replies said about each slug,   *)
(* last the operation that ran.                                            *)
(***************************************************************************)

\* most operations in a run
MaxAdminOps == 3

Slugs == {"good", "bad"}

\* the package clawhub delivers for a slug
HubPackage(slug) ==
    IF slug = "bad"
    THEN Tree(TRUE, <<SourceFile("main.js", ".js", TRUE,
                                 <<"exec(cmd)", "fetch(url)", "eval(x)">>)>>)
    ELSE Tree(TRUE, <<>>)

\* the folder a preflight scans: the package, or the placeholder SKILL.md
\* written when clawhub is not there
PreflightTree(slug) == IF fnIn.hub THEN HubPackage(slug) ELSE Tree(TRUE, <<>>)

\* POST /preflight 90-109: canInstall from the risk and the policy
canInstall(risk, pol) ==
    /\ ~ ( /\ risk.score > WARNING_MAX
           /\ \/ pol.blockShell /\ FlagsOfTypeIn(risk.flags, "shell_execution")
              \/ pol.blockNetwork /\ FlagsOfTypeIn(risk.flags, "network_call") )
    /\ risk.recommendation /= "block"

DefaultConfig ==
    [workspacePaths |-> <<>>, defaultPolicy |-> DefaultPolicy,
     enabledSkills |-> <<>>, disabledSkills |-> <<>>]

\* the operation that ran: its kind, the route or command, the slug or path
Ran(op, by, value, performed) ==
    [NoOp EXCEPT !.op = op, !.fn = by, !.value = value, !.performed = performed]

adminFrame == <<cfg, environ, spawned, procs>>

\* one more operation
Step(op, by, value, performed) ==
    /\ fnIn.kind = "admin" /\ nops < MaxAdminOps
    /\ nops' = nops + 1
    /\ last' = Ran(op, by, value, performed)
    /\ UNCHANGED adminFrame

\* POST /preflight: the skill is fetched, scanned, canInstall is worked out,
\* and a scan entry is logged
PostPreflight(slug) ==
    LET risk == scanSkill("tmp", PreflightTree(slug), fs)
        can  == canInstall(risk, policy)
    IN  /\ Step("scan", "POST /preflight", slug, TRUE)
        /\ fs' = BackendLog(fs, AuditEntry("scan", IF can THEN "success" ELSE "blocked",
                                           "tmp", slug, "-", "-"))
        /\ fnOut' = [fnOut EXCEPT !.done = TRUE,
                         !.val[slug] = [approved |-> @.approved \/ can,
                                        latest |-> risk.recommendation]]
        /\ UNCHANGED <<fnIn, policy>>

\* POST /install: 409 for a skill that is there unless force, else the skill
\* is installed and an install entry is logged
PostInstall(slug, force) ==
    /\ Step("install", "POST /install", slug, slug \notin fs.skills \/ force)
    /\ fs' = IF slug \in fs.skills /\ ~force THEN fs
             ELSE BackendLog([fs EXCEPT !.skills = @ \cup {slug}],
                             AuditEntry("install", "success", slug, slug, "-", "-"))
    /\ UNCHANGED <<fnIn, fnOut, policy>>

\* clawshield install: exit 1 for a skill that is there unless --force, else
\* the skill is installed
installCommand(slug, force) ==
    /\ Step("install", "clawshield install", slug, slug \notin fs.skills \/ force)
    /\ fs' = IF slug \in fs.skills /\ ~force THEN fs ELSE [fs EXCEPT !.skills = @ \cup {slug}]
    /\ UNCHANGED <<fnIn, fnOut, policy>>

\* clawshield preflight and clawshield scan: the result is printed
scanCommand(by, slug) ==
    /\ Step("scan", by, slug, TRUE)
    /\ UNCHANGED <<fnIn, fnOut, policy, fs>>

\* POST /skills/:id/scan for an installed skill: scanned, logged
PostScan(slug) ==
    /\ slug \in fs.skills
    /\ Step("scan", "POST /skills/:id/scan", slug, TRUE)
    /\ fs' = BackendLog(fs, AuditEntry("scan", "success", slug, slug, "-", "-"))
    /\ UNCHANGED <<fnIn, fnOut, policy>>

\* POST /policies: the policy is replaced and saved, the change is logged
PostPolicies(pol) ==
    /\ Step("policy_change", "POST /policies", "-", TRUE)
    /\ policy' = pol
    /\ fnIn' = [fnIn EXCEPT !.config.defaultPolicy = pol]
    /\ fs' = BackendLog(fs, AuditEntry("policy_change", "success", "-", "-", "-", "-"))
    /\ UNCHANGED fnOut

\* POST /config/workspace: addWorkspacePath
PostConfigWorkspace(workspacePath) ==
    /\ Step("policy_change", "POST /config/workspace", workspacePath, TRUE)
    /\ fnIn' = [fnIn EXCEPT !.config.workspacePaths =
                                IF Includes(@, workspacePath) THEN @
                                ELSE Append(@, workspacePath)]
    /\ UNCHANGED <<fnOut, policy, fs>>

\* POST /skills/:id/toggle for an installed skill: the lists are set and
\* saved, the toggle is logged
PostToggle(slug, enabled) ==
    /\ slug \in fs.skills
    /\ Step(IF enabled THEN "enable" ELSE "disable", "POST /skills/:id/toggle", slug, TRUE)
    /\ fnIn' = [fnIn EXCEPT !.config = IF enabled THEN enableSkill(@, slug)
                                       ELSE disableSkill(@, slug)]
    /\ fs' = BackendLog(fs, AuditEntry(IF enabled THEN "enable" ELSE "disable", "success",
                                       slug, slug, "-", "-"))
    /\ UNCHANGED <<fnOut, policy>>

\* clawshield config --reset: the default configuration is written to the file
configReset ==
    /\ Step("policy_change", "clawshield config --reset", "-", TRUE)
    /\ fnIn' = [fnIn EXCEPT !.config = DefaultConfig]
    /\ UNCHANGED <<fnOut, policy, fs>>

AdminInit ==
    /\ fnIn \in { [kind |-> "admin", hub |-> h, config |-> DefaultConfig] : h \in BOOLEAN }
    /\ fnOut = [done |-> FALSE,
                val |-> [s \in Slugs |-> [approved |-> FALSE, latest |-> "none"]]]
    /\ procs = NoProcs
    /\ SkillIdle
    /\ fs = [dir |-> TRUE, file |-> TRUE, ok |-> TRUE, lines |-> <<>>, app |-> <<>>, deep |-> FALSE,
             skills |-> {}]

AdminNext ==
    \/ \E slug \in Slugs : PostPreflight(slug) \/ PostScan(slug)
    \/ \E slug \in Slugs, force \in BOOLEAN : PostInstall(slug, force) \/ installCommand(slug, force)
    \/ \E slug \in Slugs, by \in {"clawshield preflight", "clawshield scan"} : scanCommand(by, slug)
    \/ \E slug \in Slugs, enabled \in BOOLEAN : PostToggle(slug, enabled)
    \/ PostPolicies(Flipped(policy))
    \/ PostConfigWorkspace("/w")
    \/ configReset

SpecAdmin == AdminInit /\ [][AdminNext]_vars

(***************************************************************************)
(* Sequences of skill toggles from the default configuration.  fnIn holds  *)
(* the configuration, fnOut the latest toggle called for each skill id.    *)
(***************************************************************************)

\* most toggles in a run
MaxToggles == 4

toggleFrame == <<policy, cfg, environ, fs, spawned, procs>>

Toggled(call, id) ==
    /\ fnIn.kind = "toggle" /\ nops < MaxToggles
    /\ nops' = nops + 1
    /\ last' = Ran(call, "PolicyManagerService", id, TRUE)
    /\ fnOut' = [fnOut EXCEPT !.done = TRUE, !.val[id] = call]
    /\ UNCHANGED toggleFrame

Enable(id) ==
    /\ Toggled("enableSkill", id)
    /\ fnIn' = [fnIn EXCEPT !.config = enableSkill(@, id)]

Disable(id) ==
    /\ Toggled("disableSkill", id)
    /\ fnIn' = [fnIn EXCEPT !.config = disableSkill(@, id)]

SkillIds == {"S", "T", "U"}

ToggleInit ==
    /\ fnIn = [kind |-> "toggle", config |-> DefaultConfig]
    /\ fnOut = [done |-> FALSE, val |-> [id \in SkillIds |-> "none"]]
    /\ procs = NoProcs
    /\ SkillIdle
    /\ fs = NoTrail

ToggleNext == \E id \in SkillIds : Enable(id) \/ Disable(id)

SpecToggle == ToggleInit /\ [][ToggleNext]_vars

(***************************************************************************)
(* scanBehavior on any trail: fs is the trail, fnIn the skill scanned,     *)
(* fnOut the findings.                                                     *)
(***************************************************************************)

\* most lines of a trail
MaxLines == 3

\* the ids of the skill scanned and of another skill
IdS == <<18>>

IdT == <<19>>

\* the lines a trail holds: runtime entries of the skill with each result and
\* with none, a runtime entry of another skill and of no skill, an entry of
\* another action, a line that does not parse, a blank line
TrailLines ==
    { AuditEntry("runtime", r, IdS, "S", "shell", "exec") :
          r \in {"blocked", "allowed", Undefined} }
    \cup { AuditEntry("runtime", "blocked", id, "T", "shell", "exec") : id \in {IdT, NoId} }
    \cup { AuditEntry("block", "blocked", IdS, "S", "-", "-"), MalformedLine, BlankLine }

Trails == UNION { [1..n -> TrailLines] : n \in 0..MaxLines }

BehaviorInit ==
    /\ fnIn = [kind |-> "behavior", id |-> IdS]
    /\ fnOut = [done |-> FALSE, val |-> <<>>]
    /\ procs = NoProcs
    /\ SkillIdle
    /\ \/ fs = NoTrail
       \/ \E lines \in Trails :
              fs = [dir |-> TRUE, file |-> TRUE, ok |-> TRUE, lines |-> lines, app |-> <<>>, deep |-> FALSE]

ScanBehavior ==
    /\ fnIn.kind = "behavior" /\ ~fnOut.done
    /\ fnOut' = [done |-> TRUE, val |-> scanBehavior(fnIn.id, fs)]
    /\ UNCHANGED <<fnIn, fs, procs, policy, cfg, environ, spawned, last, nops>>

SpecBehavior == BehaviorInit /\ [][ScanBehavior]_vars

(***************************************************************************)
(* Launching a guard from any stored policy: policy is the stored default  *)
(* policy, fnIn the guard to launch, cfg the configuration the guard holds *)
(* once loaded.                                                            *)
(***************************************************************************)

\* most entries of allowedDirs and of allowedDomains
MaxEntries == 2

\* the entries a user stores: plain ones and ones that hold ',' or ';'
StoredPaths == { <<"/", "a">>, <<"/", "a", ",", "b">>, <<"/", "a", ";", "/">> }

StoredDomains == { <<"e">>, <<"e", ",", "a">> }

StoredDirs == { [path |-> p, mode |-> m] : p \in StoredPaths, m \in {"read", "readwrite"} }

StoredPolicies ==
    [allowedDirs    : UNION { [1..n -> StoredDirs] : n \in 0..MaxEntries },
     allowedDomains : UNION { [1..n -> StoredDomains] : n \in 0..MaxEntries },
     blockShell     : BOOLEAN,
     blockSecrets   : BOOLEAN,
     blockNetwork   : BOOLEAN,
     blockFsWrite   : BOOLEAN]

\* clawshield run: the child is started with the environment made from the
\* stored policy, and the guard reads its configuration from it
runCommand ==
    /\ fnIn.kind = "launch" /\ ~fnOut.done
    /\ cfg' = Loaded(fnIn.lang, TRUE, "blocked", policy)
    /\ fnOut' = [done |-> TRUE, val |-> "launched"]
    /\ UNCHANGED <<fnIn, policy, environ, fs, spawned, last, nops, procs>>

LaunchInit ==
    /\ fnIn \in { [kind |-> "launch", lang |-> lang] : lang \in {"node", "python"} }
    /\ fnOut = [done |-> FALSE, val |-> "-"]
    /\ policy \in StoredPolicies
    /\ cfg = Loaded(fnIn.lang, TRUE, "blocked", DefaultPolicy)
    /\ environ = StartEnviron
    /\ fs = NoTrail
    /\ spawned = 0 /\ last = NoOp /\ nops = 0
    /\ procs = NoProcs

SpecLaunch == LaunchInit /\ [][runCommand]_vars

(***************************************************************************)
(* The network decision of the two guards on the same configuration and    *)
(* host: fnIn holds blockNetwork, allowedDomains and the host, fnOut what  *)
(* each guard decided.                                                     *)
(***************************************************************************)

Undecided == "undecided"

\* hosts: a subdomain, a name that only ends like the domain, the domain, no
\* host
NetHosts == { <<"a", ".", "e">>, <<"a", "e">>, <<"e">>, <<>> }

NetLists == { <<>>, << <<"e">> >>, << <<"a", ".", "e">> >>, << <<"x">>, <<"e">> >> }

NetInputs ==
    { [kind |-> "net", blockNetwork |-> b, allowedDomains |-> l, host |-> h] :
          b \in BOOLEAN, l \in NetLists, h \in NetHosts }

\* the guard of a language decides the connection
Decide(lang) ==
    /\ fnIn.kind = "net" /\ fnOut.val[lang] = Undecided
    /\ fnOut' = [fnOut EXCEPT !.done = TRUE,
                     !.val[lang] = IF NetAllowed([lang |-> lang,
                                                  blockNetwork |-> fnIn.blockNetwork,
                                                  allowedDomains |-> fnIn.allowedDomains],
                                                 fnIn.host)
                                   THEN "allow" ELSE "deny"]
    /\ UNCHANGED <<fnIn, procs, guardVars>>

\* node-guard.ts handleNetwork
handleNetwork == Decide("node")

\* python guard _handle_network
_handle_network == Decide("python")

NetInit ==
    /\ fnIn \in NetInputs
    /\ fnOut = [done |-> FALSE, val |-> [lang \in {"node", "python"} |-> Undecided]]
    /\ procs = NoProcs
    /\ GuardIdle

NetNext == handleNetwork \/ _handle_network

SpecNet == NetInit /\ [][NetNext]_vars

(***************************************************************************)
(* Intercepted filesystem mutations with one and with two paths: fnIn is   *)
(* the call the skill makes, cfg the guard's configuration, fs the trail,  *)
(* fnOut whether the call was refused and the paths it created, modified   *)
(* or removed.                                                             *)
(***************************************************************************)

InsidePath == <<"/", "f", "/", "b">>

OutsidePath == <<"/", "w", "/", "x">>

\* the patched functions and the index of the one argument the wrapper looks
\* at: writeFns (node-guard.ts 237-261), _wrap_os_write and _wrap_shutil
PatchedFns(lang) ==
    IF lang = "node" THEN {"writeFileSync", "unlinkSync", "renameSync", "copyFileSync"}
    ELSE {"remove", "mkdir", "rename", "replace", "copy", "move"}

\* the functions that take a source and a destination
TwoPathFns == {"renameSync", "copyFileSync", "rename", "replace", "copy", "move"}

\* the paths the library function creates, modifies or removes
TouchedBy(fn, args) ==
    CASE fn \in {"renameSync", "rename", "replace", "move"} -> {args[1], args[2]}
      [] fn \in {"copyFileSync", "copy"} -> {args[2]}
      [] OTHER -> {args[1]}

\* the argument the wrapper checks: args[pathIndex], path_value
CheckedArg(args) == args[1]

WriteCalls ==
    { [kind |-> "write", lang |-> lang, fn |-> fn, args |-> args] :
          lang \in {"node", "python"},
          fn \in PatchedFns("node") \cup PatchedFns("python"),
          args \in { <<a>> : a \in {InsidePath, OutsidePath} }
                   \cup { <<a, b>> : a, b \in {InsidePath, OutsidePath} } }

\* a call of a patched function: the wrapper decides on the checked
\* argument, logs, and calls the original with all the arguments
wrapWrite ==
    /\ fnIn.kind = "write" /\ ~fnOut.done
    /\ LET g == GuardPathWrite(cfg, fs, fnIn.fn, CheckedArg(fnIn.args), 0)
       IN  /\ fs' = g.fs
           /\ fnOut' = [done |-> TRUE,
                        val |-> [denied |-> g.err,
                                 touched |-> IF g.err THEN {}
                                             ELSE TouchedBy(fnIn.fn, fnIn.args)]]
    /\ UNCHANGED <<fnIn, policy, cfg, environ, spawned, last, nops, procs>>

WriteInit ==
    /\ fnIn \in { w \in WriteCalls : /\ w.fn \in PatchedFns(w.lang)
                                     /\ Len(w.args) = IF w.fn \in TwoPathFns THEN 2 ELSE 1 }
    /\ fnOut = [done |-> FALSE, val |-> [denied |-> FALSE, touched |-> {}]]
    /\ policy \in { [DefaultPolicy EXCEPT !.blockFsWrite = b, !.allowedDirs = dirs] :
                        b \in BOOLEAN,
                        dirs \in { <<>>, << [path |-> <<"/", "f">>, mode |-> "readwrite"] >> } }
    /\ \E live \in BOOLEAN, level \in {"blocked", "all"} :
           /\ fnIn.lang = "python" => live
           /\ cfg = Loaded(fnIn.lang, live, level, policy)
    /\ environ = StartEnviron
    /\ fs = NoTrail
    /\ spawned = 0 /\ last = NoOp /\ nops = 0
    /\ procs = NoProcs

SpecWrite == WriteInit /\ [][wrapWrite]_vars

(***************************************************************************)
(* Two runs of one skill under one stored policy, one with audit level     *)
(* "all" and one with "blocked", each with its own trail, given the same   *)
(* operations: cfg, fs and last hold one value for each level.             *)
(***************************************************************************)

\* operations in one pair of runs
MaxLevelOps == 2

Levels == {"all", "blocked"}

\* what one call leaves: the trail and the outcome
Done(f, out) == [fs |-> f, out |-> out]

\* the skill's fs.writeFileSync(target) / open(target, "w") under a guard
\* with configuration c and trail f
RunWrite(c, f, target) ==
    LET fn == IF c.lang = "node" THEN "writeFileSync" ELSE "open"
        g  == GuardPathWrite(c, Fresh(f), fn, target, 0)
        no == c.blockFsWrite /\ ~isPathAllowed(c.lang, target, c.allowedDirs)
    IN  Done(IF g.err THEN g.fs ELSE SkillWriteEffect(c, g.fs, target),
             Outcome("fs", fn, target, "-", no, g.err, ~g.err, "-", "-"))

\* the skill's http.request(host) / socket.create_connection(host)
RunConnect(c, f, host) ==
    LET fn == IF c.lang = "node" THEN "request" ELSE "socket.create_connection"
        ok == NetAllowed(c, host)
        r  == IF ok THEN logAllowed(c, Fresh(f), "network", fn, host, 0)
              ELSE Ret(logBlocked(c, Fresh(f), "network", fn, host, 0).fs, TRUE)
    IN  Done(r.fs, Outcome("net", fn, host, "-", ~ok, r.err, ~r.err, "-", "-"))

\* the skill's child_process.exec / subprocess.run
RunShell(c, f) ==
    LET fn == IF c.lang = "node" THEN "exec" ELSE "run" IN
    IF c.blockShell
    THEN Done(logBlocked(c, Fresh(f), "shell", fn, <<>>, 0).fs,
              Outcome("shell", fn, <<>>, "-", TRUE, TRUE, FALSE, "-", "-"))
    ELSE Done(Fresh(f), Outcome("shell", fn, <<>>, "-", FALSE, FALSE, TRUE, "-", "-"))

\* both runs make the same call
Both(kind, arg) ==
    /\ nops < MaxLevelOps
    /\ LET done == [lvl \in Levels |->
                       CASE kind = "fs"  -> RunWrite(cfg[lvl], fs[lvl], arg)
                         [] kind = "net" -> RunConnect(cfg[lvl], fs[lvl], arg)
                         [] OTHER        -> RunShell(cfg[lvl], fs[lvl])]
       IN  /\ fs' = [lvl \in Levels |-> done[lvl].fs]
           /\ last' = [lvl \in Levels |-> done[lvl].out]
    /\ nops' = nops + 1
    /\ UNCHANGED <<policy, cfg, environ, spawned, sideVars>>

BothWrite(target) == Both("fs", target)

BothConnect(host) == Both("net", host)

BothShell == Both("shell", <<>>)

LevelsInit ==
    /\ FnIdle
    /\ policy \in Policies
    /\ \E lang \in {"node", "python"}, live \in BOOLEAN :
          /\ lang = "python" => live
          /\ cfg = [lvl \in Levels |-> Loaded(lang, live, lvl, policy)]
    /\ \E f \in StartFs : fs = [lvl \in Levels |-> StartLog(cfg[lvl], f)]
    /\ environ = StartEnviron
    /\ spawned = 0
    /\ last = [lvl \in Levels |-> [NoOp EXCEPT !.op = "launch"]]
    /\ nops = 0

LevelsNext ==
    \/ \E t \in FsTargets : BothWrite(t)
    \/ \E h \in Hosts : BothConnect(h)
    \/ BothShell

SpecLevels == LevelsInit /\ [][LevelsNext]_vars

(***************************************************************************)
(* Properties of the guarded process                                       *)
(***************************************************************************)

\* the five kinds of operation the guard decides
GuardedOps == {"shell", "fs", "net", "env_get", "env_set"}

\* the audit directory exists and the disk accepts writes
TrailWritable == fs.dir /\ fs.ok

\* the latest operation appended an entry with this result and one of these
\* kinds that names the operation's target
Logged(result, kinds) ==
    \E i \in 1..Len(fs.app) :
        /\ fs.app[i].action = "runtime" /\ fs.app[i].result = result
        /\ fs.app[i].kind \in kinds /\ fs.app[i].what = last.what

\* C1: in a process started with blockShell on, no process-spawn call the
\* skill can reach (the replaced functions, or whatever the guard attached to
\* them) starts a child process, and every such call raises to its caller.
C1_NoSpawnUnderBlockShell ==
    cfg.blockShell =>
        /\ spawned = 0
        /\ (last.op \in {"shell", "shell_original"} => last.raised /\ ~last.performed)

\* a child process was started through __clawshield_original with blockShell on
C1_OriginalReached ==
    /\ cfg.blockShell /\ cfg.lang = "node"
    /\ last.op = "shell_original" /\ spawned > 0 /\ ~last.raised

\* C2 as stated: with blockFsWrite on and no allow-listed directory, a
\* filesystem-mutating call is denied whatever its target: it is not
\* performed, it raises, and a blocked fs_write entry is logged.
C2_EveryTargetDenied ==
    (last.op = "fs" /\ cfg.blockFsWrite /\ cfg.allowedDirs = <<>>) =>
        /\ last.denied /\ last.raised /\ ~last.performed
        /\ Logged("blocked", {"fs_write"})

\* C2: with blockFsWrite on and no allow-listed directory, a
\* filesystem-mutating call on any target other than the audit file is
\* denied: it is not performed and it raises; the blocked fs_write entry is
\* logged when the audit directory exists and the disk accepts the write.
C2_NonAuditTargetDenied ==
    ( /\ last.op = "fs" /\ cfg.blockFsWrite /\ cfg.allowedDirs = <<>>
      /\ NormFor(cfg.lang, last.what) /= NormFor(cfg.lang, AuditPath) ) =>
        /\ last.denied /\ last.raised /\ ~last.performed
        /\ (TrailWritable => Logged("blocked", {"fs_write"}))

\* a write outside the audit file was refused and logged under an empty allow-list
C2_WriteRefused ==
    /\ last.op = "fs" /\ cfg.blockFsWrite /\ cfg.allowedDirs = <<>>
    /\ last.what = <<"/", "f", "/", "b">>
    /\ last.raised /\ ~last.performed /\ Logged("blocked", {"fs_write"})

\* C3: every operation the guard denies, of each of the five kinds, signals
\* an error to the call that made it.
C3_DenialRaises ==
    (last.op \in GuardedOps /\ last.denied) => last.raised

\* a refused read of the environment came back with undefined
C3_SilentDenial ==
    /\ last.op = "env_get" /\ cfg.lang = "node"
    /\ last.denied /\ ~last.raised /\ last.value = "undefined"

\* the latest operation went through a function the guard replaced: the
\* spawn functions are replaced only with blockShell on (node-guard.ts 179,
\* python guard 146), process.env / os.environ only with blockSecrets on
\* (node-guard.ts 144, python guard 105)
Intercepted ==
    CASE last.op = "shell" -> cfg.blockShell
      [] last.op \in {"env_get", "env_set"} -> cfg.blockSecrets
      [] OTHER -> last.op \in {"fs", "net"}

\* C4: with the trail writable, a denied operation appends exactly one blocked
\* entry, an allowed one exactly one success entry under audit level "all"
\* and none under "blocked"; writing the entry appends nothing further.
C4_ExactlyOneEntry ==
    (Intercepted /\ TrailWritable) =>
        /\ Len(fs.app) = IF last.denied \/ cfg.auditLevel = "all" THEN 1 ELSE 0
        /\ \A i \in 1..Len(fs.app) :
              fs.app[i].result = IF last.denied THEN "blocked" ELSE "success"

\* one refused spawn left more than one entry in the trail
C4_ManyEntries ==
    /\ last.op = "shell" /\ last.denied /\ cfg.lang = "python"
    /\ cfg.auditLevel = "all" /\ TrailWritable /\ Len(fs.app) > 1

\* C5: whether or not the audit write succeeds, a denied operation is not
\* performed and raises the guard's failure, an allowed one proceeds, and
\* nothing the audit code throws reaches the skill.
C5_AuditFailureInvisible ==
    /\ last.op \in {"shell", "fs", "net"} =>
          last.raised = last.denied /\ last.performed = ~last.denied
    /\ last.op = "env_get" =>
          /\ last.performed = ~(last.denied \/ last.raised)
          /\ last.raised = IF last.denied THEN last.form = "getitem"
                           ELSE last.form = "getitem" /\ last.before = "unset"
    /\ last.op = "env_set" =>
          /\ last.performed = ~last.denied
          /\ last.raised = (last.denied /\ last.form \in {"strict", "setitem"})

\* an allowed write went through although its success entry could not be written
C5_AllowedDespiteFailure ==
    /\ last.op = "fs" /\ ~last.denied /\ cfg.auditLevel = "all"
    /\ ~fs.ok /\ fs.app = <<>>
    /\ last.performed /\ ~last.raised

\* C6: with blockSecrets on, reading a key of the allow-list returns its real
\* value; reading or writing any other key neither returns nor changes the
\* real value and, the trail being writable, appends a blocked entry of kind
\* env or env_set that names the key.
C6_SecretsGate ==
    (cfg.blockSecrets /\ last.op \in {"env_get", "env_set", "env_del", "env_raw"}) =>
        IF last.what[1] \in AllowedEnv(cfg)
        THEN last.op = "env_get" => last.value = last.before
        ELSE /\ last.value /= last.before
             /\ environ[last.what[1]] = last.before
             /\ (TrailWritable => Logged("blocked", {"env", "env_set"}))

\* delete process.env.SECRET removed the real value
C6_SecretDeleted ==
    /\ cfg.blockSecrets /\ cfg.lang = "node" /\ last.op = "env_del"
    /\ last.what = <<"SECRET">> /\ last.before = "real" /\ environ["SECRET"] = "unset"
    /\ fs.app = <<>>

\* what the guard loaded as c decides for the operation o: a function of c,
\* of the kind of operation and of its target
Decision(c, o) ==
    CASE o.op = "shell"   -> c.blockShell
      [] o.op = "fs"      -> c.blockFsWrite /\ ~isPathAllowed(c.lang, o.what, c.allowedDirs)
      [] o.op = "net"     -> ~NetAllowed(c, o.what)
      [] o.op = "env_get" -> EnvBlocked(c, o.what[1])
      [] o.op = "env_set" -> IF o.form = "putenv" THEN c.blockSecrets
                             ELSE EnvBlocked(c, o.what[1])

\* C9: within one guarded process every decision is the one the configuration
\* captured at start gives for the operation's kind and target; no operation,
\* no change of the stored policy and no change of the environment alters
\* that configuration; only the next launch reads the stored policy.
C9_DecisionFromStartConfig ==
    [][ /\ (last'.op /= "launch" => cfg' = cfg)
        /\ (last'.op \in GuardedOps => last'.denied = Decision(cfg, last'))
        /\ (last'.op = "launch" =>
               cfg' = GuardConfig(cfg.lang, cfg.live,
                                  LaunchEnv(policy, cfg.auditLevel, ExtraEnv))) ]_vars

\* a spawn was refused under the configuration of the start although the
\* stored policy no longer blocks the shell
C9_DecidedAfterPolicyChange ==
    /\ last.op = "shell" /\ last.denied /\ last.raised
    /\ cfg.blockShell /\ ~policy.blockShell

(***************************************************************************)
(* Properties of the matching functions                                    *)
(***************************************************************************)

\* the rule of C7 for target t under allow-list dirs, canonical forms as the
\* guard of language lang computes them
PathRule(lang, t, dirs) ==
    LET ct == NormFor(lang, t) IN
    \/ ct = NormFor(lang, AuditPath)
    \/ \E i \in 1..Len(dirs) :
          LET cd == NormFor(lang, dirs[i]) IN ct = cd \/ StartsWith(ct, cd \o <<Sep>>)

\* C7 as stated: with a non-empty allow-list, isPathAllowed(target) is true
\* exactly when the canonical target is the audit file, equals a canonical
\* allow-listed directory, or starts with that directory and the separator.
C7_PathRuleEveryTarget ==
    (fnOut.done /\ fnIn.kind = "path" /\ fnIn.list /= <<>>) =>
        fnOut.val = PathRule(fnIn.lang, fnIn.target, fnIn.list)

\* C7: with a non-empty allow-list and a non-empty target, isPathAllowed(target)
\* is true exactly when the canonical target is the audit file, equals a
\* canonical allow-listed directory, or starts with that directory and the
\* separator.
C7_PathRuleNonEmptyTarget ==
    (fnOut.done /\ fnIn.kind = "path" /\ fnIn.list /= <<>> /\ fnIn.target /= <<>>) =>
        fnOut.val = PathRule(fnIn.lang, fnIn.target, fnIn.list)

\* "/f/b" was found allowed under the allow-listed directory "/f"
C7_ChildAllowed ==
    /\ fnOut.done /\ fnIn.kind = "path" /\ fnOut.val
    /\ fnIn.target = <<"/", "f", "/", "b">> /\ fnIn.list = <<<<"/", "f">>>>

\* C8 as stated: isDomainAllowed(host) is true exactly when the lower-cased
\* host name without its port equals an allow-listed domain as listed, or ends
\* with "." and that domain; never under an empty allow-list.
C8_DomainRuleAsListed ==
    (fnOut.done /\ fnIn.kind = "domain") =>
        fnOut.val = \E i \in 1..Len(fnIn.list) :
                        \/ HostName(fnIn.target) = fnIn.list[i]
                        \/ EndsWith(HostName(fnIn.target), <<".">> \o fnIn.list[i])

\* C8: isDomainAllowed(host) is true exactly when the lower-cased host name
\* without its port equals a lower-cased allow-listed domain, or ends with
\* "." and that lower-cased domain; never under an empty allow-list.
C8_DomainRuleLowerCased ==
    (fnOut.done /\ fnIn.kind = "domain") =>
        fnOut.val = \E i \in 1..Len(fnIn.list) :
                        \/ HostName(fnIn.target) = ToLower(fnIn.list[i])
                        \/ EndsWith(HostName(fnIn.target), <<".">> \o ToLower(fnIn.list[i]))

\* "a.e" was found allowed under the allow-listed domain "e"
C8_SubdomainAllowed ==
    /\ fnOut.done /\ fnIn.kind = "domain" /\ fnOut.val
    /\ fnIn.target = <<"a", ".", "e">> /\ fnIn.list = <<<<"e">>>>

(***************************************************************************)
(* Properties of the shared audit trail                                    *)
(***************************************************************************)

\* C10: however the file-creation and append steps of the backend logger and
\* of the guarded processes interleave, every entry any of them appended is
\* in the file.
C10_NoEntryLost ==
    \A i \in 1..Len(fs.app) : \E j \in 1..Len(fs.lines) : fs.lines[j] = fs.app[i]

\* the entry the Python guard's process appended is gone: a process that had
\* found no file created it afterwards
C10_EntryTruncated ==
    /\ \E i \in 1..Len(fs.app) : fs.app[i].by = "python"
    /\ \A j \in 1..Len(fs.lines) : fs.lines[j].by /= "python"

(***************************************************************************)
(* Properties of the trail's contents                                      *)
(***************************************************************************)

\* C11: in a guarded process running with blockFsWrite on, nothing the skill
\* does (a write, truncation, removal or rename on any path, the audit file's
\* included) removes or alters an entry that is already in the trail.
C11_EntriesStay ==
    [][ (cfg.blockFsWrite /\ last'.op \in GuardedOps) =>
            /\ Len(fs'.lines) >= Len(fs.lines)
            /\ \A i \in 1..Len(fs.lines) : fs'.lines[i] = fs.lines[i] ]_vars

\* with blockFsWrite on, the skill's write to the audit file went through and
\* replaced the trail's contents
C11_TrailOverwritten ==
    /\ cfg.blockFsWrite /\ last.op = "fs" /\ last.what = AuditPath
    /\ ~last.denied /\ last.performed /\ fs.lines = <<Junk>>

\* the records that parse in a file holding lines
ValidLines(lines) == {i \in 1..Len(lines) : lines[i].valid}

\* what C12 says of the result got of getRecentEntries(limit) on a file
\* holding lines
NewestFirst(lines, limit, got) ==
    /\ Len(got) = IF limit < Cardinality(ValidLines(lines)) THEN limit
                  ELSE Cardinality(ValidLines(lines))
    /\ \A k \in 1..Len(got) : got[k].valid
    /\ \A k \in 1..(Len(got) - 1) : got[k].ts >= got[k + 1].ts
    /\ \A i \in ValidLines(lines) :
          (\A k \in 1..Len(got) : got[k] /= lines[i]) =>
              \A k \in 1..Len(got) : lines[i].ts <= got[k].ts

\* C12: getRecentEntries(N) returns min(N, number of valid records) entries,
\* none of them malformed, newest first, and no record left out has a larger
\* timestamp than one returned, also when several processes append entries
\* whose timestamps they took beforehand.
C12_RecentAreNewest ==
    [][ (~fnOut.done /\ fnOut'.done) => NewestFirst(fs.lines, fnIn, fnOut'.val) ]_vars

\* every writer has appended, getRecentEntries(1) returned the file's last
\* record, and the file holds a record with a later timestamp
C12_OlderReturned ==
    /\ \A p \in Procs : procs[p].pc = "done"
    /\ fnOut.done /\ fnIn = 1 /\ fnOut.val = <<fs.lines[Len(fs.lines)]>>
    /\ \E i \in ValidLines(fs.lines) : fs.lines[i].ts > fnOut.val[1].ts

(***************************************************************************)
(* Properties of the score                                                 *)
(***************************************************************************)

\* the categories present in a list of findings
Categories(flags) == {flags[i].type : i \in 1..Len(flags)}

\* how many findings of the list have category c
CountOf(flags, c) == Cardinality({i \in 1..Len(flags) : flags[i].type = c})

RECURSIVE QuarterSum(_, _)
\* sum over the categories cs of weight + min(count - 1, 3) * weight / 4, in
\* quarters
QuarterSum(flags, cs) ==
    IF cs = {} THEN 0
    ELSE LET c == CHOOSE x \in cs : TRUE
             extra == IF CountOf(flags, c) - 1 < 3 THEN CountOf(flags, c) - 1 ELSE 3
         IN  4 * typeWeights(c) + extra * typeWeights(c) + QuarterSum(flags, cs \ {c})

\* C13: the reported score is min(100, round(sum over the categories present
\* of weight + min(count - 1, 3) * weight / 4)); it is 0 with recommendation
\* allow for no findings; the 2nd to 4th finding of a category each add less
\* than the first, the 5th and later add nothing.
C13_ScoreFormula ==
    (fnOut.done /\ fnIn.kind = "score") =>
        LET flags == fnIn.flags
            q     == QuarterSum(flags, Categories(flags))
        IN  /\ \E n \in 0..(30 * MaxFlags) :
                  /\ 4 * n - 2 <= q /\ q <= 4 * n + 1
                  /\ fnOut.val.score = IF n < 100 THEN n ELSE 100
            /\ (flags = <<>> => fnOut.val.score = 0 /\ fnOut.val.recommendation = "allow")
            /\ \A c \in Categories(flags) :
                  LET k == CountOf(flags, c)
                      w == typeWeights(c)
                  IN  /\ (k \in 2..4 => TypeTerm(w, k) - TypeTerm(w, k - 1) < TypeTerm(w, 1))
                      /\ (k >= 5 => TypeTerm(w, k) = TypeTerm(w, k - 1))

\* five findings of one category were scored
C13_FifthOccurrence ==
    /\ fnOut.done /\ fnIn.kind = "score"
    /\ Len(fnIn.flags) = 5 /\ Categories(fnIn.flags) = {"shell_execution"}
    /\ fnOut.val.score = 44

\* C14: in every RiskScanResult the score is an integer in 0..100, the
\* recommendation is allow iff score <= 30, sandbox iff 31 <= score <= 60,
\* block iff score >= 61, also when the total before clamping passes 100, and
\* the recommendation sentence of the explanation names the same tier.
C14_RecommendationAgrees ==
    (fnOut.done /\ fnIn.kind = "score") =>
        LET r == fnOut.val IN
        /\ r.score \in 0..100
        /\ (r.recommendation = "allow") = (r.score <= 30)
        /\ (r.recommendation = "sandbox") = (31 <= r.score /\ r.score <= 60)
        /\ (r.recommendation = "block") = (r.score >= 61)
        /\ r.explanation /= "none" =>
              r.explanation = CASE r.recommendation = "allow"   -> "safe to use"
                                [] r.recommendation = "sandbox" -> "review, sandbox"
                                [] r.recommendation = "block"   -> "high risk, block"

\* a total above 100 was reported as 100 with recommendation block
C14_ClampedBlock ==
    /\ fnOut.done /\ fnIn.kind = "score"
    /\ calculateScore(fnIn.flags) > 100
    /\ fnOut.val.score = 100 /\ fnOut.val.recommendation = "block"
    /\ fnOut.val.explanation = "high risk, block"

(***************************************************************************)
(* Properties of a scan                                                    *)
(***************************************************************************)

\* the replies that hold a RiskScanResult
Scanned == {k \in {"S", "T", "path"} : fnOut.val[k].status = "ok"}

\* how many flags of a result have the type
FlagsOfType(risk, type) ==
    Cardinality({i \in 1..Len(risk.flags) : risk.flags[i].type = type})

\* S's tree is one readable source file with a process-spawn call on one line
\* and a network-fetch call on the other
SpawnAndFetch ==
    /\ fnIn.tree.exists /\ Len(fnIn.tree.files) = 1
    /\ fnIn.tree.files[1].readable
    /\ fnIn.tree.files[1].lines \in
           { <<"exec(cmd)", "fetch(url)">>, <<"subprocess.run(cmd)", "requests.get(url)">>,
             <<"eval $cmd", "curl $url">> }

\* C15: a scan of a skill whose only risky content is one source file with a
\* process-spawn call on one line and a network-fetch call on another has
\* exactly two findings, one shell_execution and one network_call, score 45
\* and recommendation sandbox, whatever the file's language.
C15_TwoFindings ==
    (SpawnAndFetch /\ fnOut.val["path"].status = "ok") =>
        LET risk == fnOut.val["path"].risk IN
        /\ Len(risk.flags) = 2
        /\ FlagsOfType(risk, "shell_execution") = 1
        /\ FlagsOfType(risk, "network_call") = 1
        /\ risk.score = 45
        /\ risk.recommendation = "sandbox"

\* the scan of the JavaScript file reports each call twice
C15_FourFindings ==
    /\ SpawnAndFetch /\ fnIn.tree.files[1].ext = ".js"
    /\ fnOut.val["path"].status = "ok"
    /\ Len(fnOut.val["path"].risk.flags) = 4
    /\ FlagsOfType(fnOut.val["path"].risk, "shell_execution") = 2
    /\ FlagsOfType(fnOut.val["path"].risk, "network_call") = 2
    /\ fnOut.val["path"].risk.score = 56

\* the places of the trail where a scan of skill k was logged
ScanMarks(k, app) == {i \in 1..Len(app) : app[i].action = "scan" /\ app[i].skillName = k}

\* no runtime entry was appended after the last logged scan of skill k
NoRuntimeSince(k, app) ==
    /\ ScanMarks(k, app) /= {}
    /\ \A i \in 1..Len(app) :
          (\A j \in ScanMarks(k, app) : j < i) => app[i].action /= "runtime"

\* two results with the same findings and the same score
SameFindings(r1, r2) ==
    /\ {r1.flags[i] : i \in 1..Len(r1.flags)} = {r2.flags[i] : i \in 1..Len(r2.flags)}
    /\ Len(r1.flags) = Len(r2.flags)
    /\ r1.score = r2.score

\* C16: a scan of an unchanged skill tree yields the findings and score of the
\* scan before it whenever no runtime audit entry was appended between the two
\* scans, whatever number of other entries was appended.
C16_RescanSame ==
    [][ \A k \in {"S", "T"} :
           ( /\ fnOut.val[k].status = "ok" /\ fnOut'.val[k].status = "ok"
             /\ NoRuntimeSince(k, fs.app) )
           => SameFindings(fnOut.val[k].risk, fnOut'.val[k].risk) ]_vars

\* a blocked entry of S was found by one scan of S and, with no runtime entry
\* after it, is missing from the next
C16_FindingDropped ==
    /\ fnOut.val["S"].status = "ok"
    /\ FlagsOfType(fnOut.val["S"].risk, "runtime_blocked") = 0
    /\ \E i, j, l \in 1..Len(fs.app) :
          /\ i < j /\ j < l /\ j - i <= BehaviorWindow
          /\ fs.app[i].action = "runtime" /\ fs.app[i].result = "blocked"
          /\ fs.app[i].skillId = parseSkillId(PathOf("S"))
          /\ {j, l} \subseteq ScanMarks("S", fs.app) /\ l = Len(fs.app)
          /\ \A m \in (i + 1)..Len(fs.app) : fs.app[m].action /= "runtime"
          /\ \A m \in (j + 1)..(l - 1) : m \notin ScanMarks("S", fs.app)

\* what identifies a finding: category, location, line, evidence
FindingKey(flag) == <<flag.type, flag.location, flag.line, flag.evidence>>

\* C17: in every RiskScanResult no two findings have the same category,
\* location, line and evidence, whichever detectors produced them.
C17_FindingsUnique ==
    \A k \in Scanned :
        LET flags == fnOut.val[k].risk.flags IN
        \A i, j \in 1..Len(flags) :
            FindingKey(flags[i]) = FindingKey(flags[j]) => i = j

\* a scan of S that holds two runtime_blocked findings with one key, which
\* the score counts as two
C17_SameFindingTwice ==
    /\ fnOut.val["S"].status = "ok"
    /\ \E i, j \in 1..Len(fnOut.val["S"].risk.flags) :
          /\ i < j
          /\ fnOut.val["S"].risk.flags[i].type = "runtime_blocked"
          /\ FindingKey(fnOut.val["S"].risk.flags[i]) = FindingKey(fnOut.val["S"].risk.flags[j])
    /\ FlagsOfType(fnOut.val["S"].risk, "runtime_blocked") = 2
    /\ fnIn.tree = Tree(TRUE, <<>>) /\ fnOut.val["S"].risk.score = 19

\* C18: a scan of a skill path that is not there (nothing under it can be
\* listed or read) returns an error and never a RiskScanResult with score 0
\* and recommendation allow.
C18_MissingPathIsError ==
    (fnOut.val["path"].status /= "none" /\ ~fnIn.tree.exists)
    => /\ fnOut.val["path"].status = "error"
       /\ ~ ( /\ fnOut.val["path"].status = "ok"
              /\ fnOut.val["path"].risk.score = 0
              /\ fnOut.val["path"].risk.recommendation = "allow" )

\* scanSkillPath of a path that is not there reported score 0 and allow
C18_MissingPathAllowed ==
    /\ ~fnIn.tree.exists
    /\ fnOut.val["path"].status = "ok"
    /\ fnOut.val["path"].risk.score = 0
    /\ fnOut.val["path"].risk.recommendation = "allow"
    /\ fnOut.val["path"].risk.flags = <<>>

\* the blocked runtime entries that guarded runs of skill k wrote
BlockedBy(k, app) ==
    {i \in 1..Len(app) : /\ app[i].action = "runtime" /\ app[i].result = "blocked"
                         /\ app[i].skillName = k}

\* C20: the skill id identifies one skill: the scanner and the run command
\* compute the same id for a skill, two skills at different paths have
\* different ids, and the runtime_blocked findings of a scan of a skill come
\* only from blocked entries that guarded runs of that skill wrote.
C20_IdIdentifiesSkill ==
    /\ \A k \in {"S", "T"} : skillId(PathOf(k)) = parseSkillId(PathOf(k))
    /\ PathOf("S") /= PathOf("T") => parseSkillId(PathOf("S")) /= parseSkillId(PathOf("T"))
    /\ \A k \in {"S", "T"} :
          fnOut.val[k].status = "ok" =>
              FlagsOfType(fnOut.val[k].risk, "runtime_blocked") <= Cardinality(BlockedBy(k, fs.app))

\* S and T are at different paths with one id, and the scan of S holds a
\* runtime_blocked finding although no guarded run of S was blocked
C20_ForeignFinding ==
    /\ PathOf("S") /= PathOf("T")
    /\ parseSkillId(PathOf("S")) = skillId(PathOf("T"))
    /\ fnOut.val["S"].status = "ok"
    /\ FlagsOfType(fnOut.val["S"].risk, "runtime_blocked") = 1
    /\ BlockedBy("S", fs.app) = {} /\ BlockedBy("T", fs.app) /= {}

(***************************************************************************)
(* Properties of the stored policy                                         *)
(***************************************************************************)

\* C19: after the load from a missing file, a corrupt file or a file with any
\* subset of the fields absent, and after any sequence of setter calls, every
\* policy field has an explicit value: the gates are booleans, the allow-lists
\* are lists, and right after a load the fields absent from the file have the
\* defaults blockShell, blockSecrets true, blockNetwork, blockFsWrite false
\* and empty lists.
C19_EveryFieldExplicit ==
    fnIn.kind = "config" =>
        /\ DOMAIN policy = PolicyFields
        /\ \A g \in Gates : policy[g] \in BOOLEAN
        /\ policy.allowedDirs \in Seq(DirPerms)
        /\ policy.allowedDomains \in Seq(DomainNames)
        /\ ~fnOut.done =>
              LET stored == IF fnIn.state = "json" /\ "defaultPolicy" \in DOMAIN fnIn.parsed
                            THEN fnIn.parsed.defaultPolicy ELSE <<>>
              IN  \A f \in PolicyFields \ DOMAIN stored : policy[f] = DefaultPolicy[f]

\* a setter ran after a load that filled in the defaults: blockNetwork and
\* allowedDomains were set, the other fields still hold their defaults, and
\* the file that was saved holds all six fields
C19_DefaultsKept ==
    /\ fnIn.kind = "config" /\ fnOut.done
    /\ policy = [DefaultPolicy EXCEPT !.blockNetwork = TRUE, !.allowedDomains = <<<<"e">>>>]
    /\ fnIn.state = "json" /\ fnIn.parsed = [defaultPolicy |-> policy]

(***************************************************************************)
(* Properties of the administrative operations                             *)
(***************************************************************************)

\* a step that installed a skill
Installs == nops' /= nops /\ last'.op = "install" /\ last'.performed

\* C21: a skill is installed only after a preflight approved it: before every
\* install of a slug that succeeds, by the route or by the command, some
\* preflight of the slug answered canInstall = true, and the latest
\* preflight of the slug did not recommend block
C21_InstallAfterApproval ==
    [][Installs => /\ fnOut.val[last'.value].approved
                   /\ fnOut.val[last'.value].latest /= "block"]_vars

\* the slug whose only preflight answered canInstall = false with the
\* recommendation block is installed by POST /install
C21_InstalledAfterBlock ==
    /\ fnIn.kind = "admin"
    /\ last.op = "install" /\ last.fn = "POST /install" /\ last.performed
    /\ last.value \in fs.skills
    /\ ~fnOut.val[last.value].approved
    /\ fnOut.val[last.value].latest = "block"

\* a step that changed the stored configuration, scanned or installed
Administrative ==
    /\ nops' /= nops /\ last'.performed
    /\ last'.op \in {"policy_change", "enable", "disable", "scan", "install"}

\* C22: every administrative action is recorded: each change of the stored
\* configuration, each scan and each install appends one entry of the
\* matching action to the trail in the step that performs it
C22_EveryActionRecorded ==
    [][Administrative => /\ Len(fs'.lines) = Len(fs.lines) + 1
                         /\ fs'.lines[Len(fs'.lines)].action = last'.op]_vars

\* POST /config/workspace has added a workspace path to the stored
\* configuration and the trail is empty
C22_WorkspaceUnrecorded ==
    /\ fnIn.kind = "admin"
    /\ last.fn = "POST /config/workspace"
    /\ fnIn.config.workspacePaths = <<"/w">>
    /\ fs.lines = <<>>

(***************************************************************************)
(* Properties of the skill toggles                                         *)
(***************************************************************************)

\* no element twice
NoDuplicates(list) == \A i, j \in 1..Len(list) : list[i] = list[j] => i = j

\* C29: from the default configuration, after any sequence of enableSkill
\* and disableSkill calls enabledSkills and disabledSkills share no id and
\* hold no id twice, and isSkillEnabled(id) is false exactly when the latest
\* toggle of id was disableSkill
C29_TogglesConsistent ==
    fnIn.kind = "toggle" =>
        /\ \A id \in SkillIds : ~ ( Includes(fnIn.config.enabledSkills, id)
                                    /\ Includes(fnIn.config.disabledSkills, id) )
        /\ NoDuplicates(fnIn.config.enabledSkills)
        /\ NoDuplicates(fnIn.config.disabledSkills)
        /\ \A id \in SkillIds :
               isSkillEnabled(fnIn.config, id) = (fnOut.val[id] /= "disableSkill")

\* a skill was disabled and enabled again, another is disabled, a third was
\* never toggled
C29_ToggledBack ==
    /\ fnIn.kind = "toggle"
    /\ last = Ran("enableSkill", "PolicyManagerService", "S", TRUE)
    /\ nops = 3
    /\ fnOut.val = [id \in SkillIds |-> CASE id = "S" -> "enableSkill"
                                          [] id = "T" -> "disableSkill"
                                          [] OTHER -> "none"]
    /\ isSkillEnabled(fnIn.config, "S") /\ ~isSkillEnabled(fnIn.config, "T")
    /\ isSkillEnabled(fnIn.config, "U")

(***************************************************************************)
(* Properties of failing saves                                             *)
(***************************************************************************)

\* a setter ran and its saveConfig threw
SaveFailed == fnIn.kind = "config" /\ ~fnIn.ok /\ fnOut'.val = "set"

\* C30: a setter whose saveConfig fails leaves the configuration in memory as
\* it was before the call
C30_FailedSaveKeepsMemory == [][SaveFailed => policy' = policy]_vars

\* no configuration was ever saved (the file is missing and the disk refuses
\* writes), a setter has run, and getDefaultPolicy is not the default policy
\* the service loaded
C30_MemoryAheadOfDisk ==
    /\ fnIn.kind = "config" /\ ~fnIn.ok /\ fnIn.state = "missing"
    /\ fnOut.val = "set"
    /\ policy /= DefaultPolicy

(***************************************************************************)
(* Properties of scanBehavior                                              *)
(***************************************************************************)

\* the last BehaviorWindow lines of the trail that are not blank
Window ==
    LET kept == { i \in 1..Len(fs.lines) : fs.lines[i] /= BlankLine }
    IN  { i \in kept : Cardinality({ j \in kept : j > i }) < BehaviorWindow }

\* the line is a runtime entry of the scanned skill
RuntimeOfSkill(line) ==
    /\ line \notin {MalformedLine, BlankLine}
    /\ line.action = "runtime" /\ line.skillId = fnIn.id

\* as many findings as lines of the window in the set, each a runtime_blocked
\* finding of the behavior scan
FindingsFor(counted) ==
    /\ Len(fnOut.val) = Cardinality({ i \in Window : fs.lines[i] \in counted })
    /\ \A i \in 1..Len(fnOut.val) :
           fnOut.val[i].type = "runtime_blocked" /\ fnOut.val[i].source = "behavior"

Scans == fnIn.kind = "behavior" /\ fnOut.done

\* C25 as stated: one runtime_blocked finding for each line of the window
\* that is a runtime entry of the skill with result = blocked, none for any
\* other line
C25_OnlyBlockedResults ==
    Scans => FindingsFor({ line \in TrailLines : RuntimeOfSkill(line) /\ line.result = "blocked" })

\* C25, amended: one runtime_blocked finding for each line of the window that
\* is a runtime entry of the skill with result = blocked or with no result,
\* none for any other line; a malformed line does not end the scan
C25_BlockedOrNoResult ==
    Scans => FindingsFor({ line \in TrailLines :
                             RuntimeOfSkill(line) /\ line.result \in {"blocked", Undefined} })

\* the window holds a malformed line and then a runtime entry of the skill
\* with no result, and the scan has one finding
C25_NoResultCounted ==
    /\ Scans
    /\ Len(fs.lines) = 3
    /\ fs.lines[2] = MalformedLine
    /\ fs.lines[3] = AuditEntry("runtime", Undefined, IdS, "S", "shell", "exec")
    /\ Len(fnOut.val) = 1

(***************************************************************************)
(* Properties of the launch                                                *)
(***************************************************************************)

Launched == fnIn.kind = "launch" /\ fnOut.done

\* C26: the configuration a guard enforces equals the stored default policy
\* at launch, for every policy value: the four gates are equal, the guard's
\* domains are the policy's allowedDomains and its writable directories are
\* the paths of the policy's allowedDirs with mode readwrite, also for
\* entries that hold ',' or ';'
C26_GuardEnforcesStoredPolicy ==
    Launched =>
        /\ cfg.blockShell = policy.blockShell
        /\ cfg.blockNetwork = policy.blockNetwork
        /\ cfg.blockSecrets = policy.blockSecrets
        /\ cfg.blockFsWrite = policy.blockFsWrite
        /\ cfg.allowedDomains = policy.allowedDomains
        /\ cfg.allowedDirs = WriteDirs(policy.allowedDirs)

\* the stored policy lets the skill write under the one directory "/a;/" and
\* the guard launched from it lets it write under "/a" and under "/"
C26_ListSplitApart ==
    /\ Launched
    /\ policy.allowedDirs = << [path |-> <<"/", "a", ";", "/">>, mode |-> "readwrite"] >>
    /\ cfg.allowedDirs = << <<"/", "a">>, <<"/">> >>

(***************************************************************************)
(* Properties of the network decision                                      *)
(***************************************************************************)

BothDecided ==
    fnIn.kind = "net" /\ fnOut.val["node"] /= Undecided /\ fnOut.val["python"] /= Undecided

\* C27: given the same blockNetwork, allowedDomains and host the Node guard
\* and the Python guard make the same decision, and with blockNetwork off
\* the allow-list restricts nothing
C27_GuardsDecideAlike ==
    BothDecided =>
        /\ fnOut.val["node"] = fnOut.val["python"]
        /\ ~fnIn.blockNetwork => fnOut.val["node"] = "allow"

\* blockNetwork is off, the allow-list holds a domain the host is not under:
\* the Node guard denies the connection, the Python guard allows it
C27_NodeDeniesPythonAllows ==
    /\ BothDecided
    /\ ~fnIn.blockNetwork
    /\ fnIn.allowedDomains = << <<"e">> >> /\ fnIn.host = <<"a", "e">>
    /\ fnOut.val["node"] = "deny" /\ fnOut.val["python"] = "allow"

(***************************************************************************)
(* Properties of the filesystem mutations                                  *)
(***************************************************************************)

\* the path is under a directory of the allow-list
InAllowList(p) ==
    \E i \in 1..Len(cfg.allowedDirs) :
        UnderDir(NormFor(cfg.lang, p), NormFor(cfg.lang, cfg.allowedDirs[i]))

\* C28: with blockFsWrite on, no intercepted call creates, modifies or
\* removes a path outside the allow-list, two-path calls with the source
\* inside and the destination outside included
C28_NoMutationOutside ==
    (fnIn.kind = "write" /\ fnOut.done /\ cfg.blockFsWrite) =>
        \A p \in fnOut.val.touched : InAllowList(p)

\* with blockFsWrite on and "/f" the only allowed directory, a rename from
\* inside "/f" to a path outside was not refused and has created the path
\* outside
C28_RenamedOut ==
    /\ fnIn.kind = "write" /\ fnOut.done /\ cfg.blockFsWrite
    /\ fnIn.fn \in {"renameSync", "rename"}
    /\ fnIn.args = <<InsidePath, OutsidePath>>
    /\ cfg.allowedDirs = << <<"/", "f">> >>
    /\ ~fnOut.val.denied
    /\ OutsidePath \in fnOut.val.touched

(***************************************************************************)
(* Properties of the audit level                                           *)
(***************************************************************************)

\* the entries of one result the latest operation appended at a level
AppendedAt(lvl, result) == SelectSeq(fs[lvl].app, LAMBDA e : e.result = result)

\* the two runs decided the latest operation alike and performed it alike
SameDecisions ==
    /\ last["all"].denied = last["blocked"].denied
    /\ last["all"].raised = last["blocked"].raised
    /\ last["all"].performed = last["blocked"].performed

\* C23: under the same policy and the same operations, the run with audit
\* level "all" and the run with "blocked" decide every operation alike and
\* perform the same operations, and the entries they write for an operation
\* differ in the success entries only
C23_OnlySuccessEntriesDiffer ==
    /\ SameDecisions
    /\ AppendedAt("all", "blocked") = AppendedAt("blocked", "blocked")

\* an allowed connection was performed in both runs; the run with level
\* "blocked" wrote nothing for it, the run with level "all" wrote a blocked
\* entry
C23_BlockedEntryUnderAll ==
    /\ last["all"].op = "net" /\ last["all"].performed /\ last["blocked"].performed
    /\ fs["blocked"].app = <<>>
    /\ AppendedAt("all", "blocked") /= <<>>

(***************************************************************************)
(* Properties of the nesting of the guard's audit calls                    *)
(***************************************************************************)

\* C24: the decide-and-audit step of every intercepted operation ends after
\* a bounded number of guard steps: for every blockFsWrite, allow-list,
\* audit level and start state of the audit directory, the guard's own
\* audit activity never re-enters the interception path until the runtime's
\* stack is used up
C24_AuditNestingBounded == ~fs.deep

\* a spawn refused by the Python guard under audit level "blocked", with no
\* audit directory yet: the guard's makedirs was refused and logged again
\* and again until the stack limit, and nothing was written
C24_RecursedToStackLimit ==
    /\ last.op = "shell" /\ last.denied
    /\ cfg.lang = "python" /\ cfg.auditLevel = "blocked" /\ cfg.blockFsWrite
    /\ ~fs.dir /\ fs.lines = <<>>
    /\ fs.deep

====
